---- MODULE Spec2Model ----
(***************************************************************************)
(* Model of the subject detector (pkg/vision/detector.go) and of the smart *)
(* cropper built on it (package cropper).                                  *)
(*                                                                         *)
(* Arithmetic.  The Go code computes in float64.  The model computes the   *)
(* same quantities exactly, as integers over fixed denominators:           *)
(*   - a DetectionConfig field is an integer number of hundredths          *)
(*     (0.01 is 1, 0.3 is 30);                                             *)
(*   - a saliency value is an integer number of 1/SalDen;                  *)
(*   - a Region score is a fraction [n, d] of saliency units, n/d/SalDen;  *)
(*   - a target aspect ratio is a fraction <<rn, rd>>;                     *)
(*   - int(f) of a non-negative float is \div (truncation).                *)
(* Division by zero follows IEEE-754 as Go does: x/0 is +Inf for x > 0 and *)
(* NaN for 0/0, and every ordered comparison with NaN is false.            *)
(***************************************************************************)
EXTENDS Integers, Sequences, FiniteSets, TLC

VARIABLES config, cropConfig, pc, call, ret, fin, fout, goroutines, buffers

vars == <<config, cropConfig, pc, call, ret, fin, fout, goroutines, buffers>>

(***************************************************************************)
(* Bounds of the model.                                                    *)
(***************************************************************************)
\* small images are w x h for w, h in 0..SmallMax (no window of side >= 10)
SmallMax == 3
\* wide images are BigW x h, h in BigH-2..BigH: one window size, BigW \div 4
BigW == 40
BigH == 12
\* target ratios are rn/rd with rn, rd in 1..MaxRatio
MaxRatio == 4
\* filterAndScoreRegions on its own: lists of up to SortMaxLen regions with
\* scores in 1..SortMaxScore
SortMaxLen == 4
SortMaxScore == 3
\* calculateCropQuality on its own: images and regions of sides 1..QMaxDim,
\* region scores 0..QMaxScore (whole units), regions at offsets up to QFar
QMaxDim == 2
QMaxScore == 3
QFar == 30
\* calls running at the same time on one detector
NumGoroutines == 2
\* GetDominantColors: images ColorW x h, h in 1..ColorH, and regions that
\* start up to one pixel outside the image
ColorW == 8
\* CalculateOptimalCropBox: images and targets up to these sizes, centres
\* at the multiples of 1/CenterDen
BoxMaxDim == 3
BoxMaxTarget == 2
CenterDen == 4
\* calculateSaliencyMap: images up to SalMax x SalMax
SalMax == 5
\* CropToRatio: images whose bounds start up to MaxOffset away from (0,0)
MaxOffset == 100
\* findImportantRegions: images up to ScanW x ScanH, so that windows of two
\* sizes fit
ScanW == 80
ScanH == 20
\* findOptimalCropPosition: subject lists of up to PosMaxLen regions
PosMaxLen == 2
\* croppedImage: views of a ViewW x ViewH image
ViewW == 4
ViewH == 3
\* CropToMultipleRatios: lists of up to MultiMaxLen aspect ratios
MultiMaxLen == 2
ColorH == 2

Max(a, b) == IF a > b THEN a ELSE b
Min(a, b) == IF a < b THEN a ELSE b
Abs(a) == IF a < 0 THEN -a ELSE a

\* Go's integer division truncates toward zero
GoDiv(a, b) == IF a >= 0 THEN a \div b ELSE -((-a) \div b)

\* math.Sqrt: exact on perfect squares, the floor of the root otherwise
RECURSIVE ISqrtIn(_, _, _)
ISqrtIn(n, lo, hi) ==
  IF lo >= hi THEN lo
  ELSE LET mid == (lo + hi + 1) \div 2
       IN  IF mid * mid <= n THEN ISqrtIn(n, mid, hi) ELSE ISqrtIn(n, lo, mid - 1)
ISqrt(n) == IF n <= 0 THEN 0 ELSE ISqrtIn(n, 0, Min(n, 46340))

RECURSIVE GCD(_, _)
GCD(a, b) == IF b = 0 THEN a ELSE GCD(b, a % b)
LCM(a, b) == (a \div GCD(a, b)) * b

(***************************************************************************)
(* Images.  An image is [W, H, pat]: its bounds are (0,0)-(W,H) and pat    *)
(* names its pixels.  Channels are 8-bit; the palette keeps every colour   *)
(* distance a whole multiple of 65535 on the 16-bit scale.                 *)
(***************************************************************************)
Black == <<0, 0, 0>>
Red == <<255, 0, 0>>

Orange == <<200, 100, 50>>
Teal == <<20, 130, 140>>

\* six shades that fall into six different 4-bit buckets; the offset o moves
\* a shade inside its bucket
Shade(k, o) == <<40 * k + 9 + o, 0, 255>>

Patterns == {"black", "stripes", "left", "frame"}

\* img.At(x, y) of the test images
At(img, x, y) ==
  CASE img.pat = "black" -> Black
    [] img.pat = "red" -> Red
    [] img.pat = "stripes" -> IF x % 2 = 0 THEN Red ELSE Black
    [] img.pat = "left" -> IF x < img.W \div 4 THEN Red ELSE Black
    [] img.pat = "frame" -> IF x >= img.W \div 4 /\ x < img.W \div 2 THEN Black ELSE Red
    [] img.pat = "solid" -> Orange
    [] img.pat = "checker" -> IF (x + y) % 2 = 0 THEN Orange ELSE Teal
    [] img.pat = "shades" -> Shade(Min(x, 5), Max(x - 5, 0))
    [] img.pat = "peak" -> IF x < img.W - 2 THEN Orange ELSE Teal

\* color.RGBA{c, c, c, 255}.RGBA(): an 8-bit channel on the 16-bit scale
RGBA(c) == c * 257

SmallImages == { [W |-> w, H |-> h, pat |-> "red"] : w \in 0..SmallMax, h \in 0..SmallMax }
BigImages == { [W |-> BigW, H |-> h, pat |-> p] : h \in (BigH - 2)..BigH, p \in Patterns }
Images == SmallImages \cup BigImages

\* the images whose colours are extracted, and the regions asked for
ColorPatterns == {"solid", "shades", "peak", "stripes"}
ColorImages == { [W |-> ColorW, H |-> h, pat |-> p] : h \in (ColorH - 1)..ColorH, p \in ColorPatterns }
ColorRegions(img) ==
  { [X |-> x, Y |-> 0, Width |-> w, Height |-> img.H, Score |-> [n |-> 0, d |-> 1]] :
      x \in -1..img.W, w \in 0..img.W }

Ratios == (1..MaxRatio) \X (1..MaxRatio)

(***************************************************************************)
(* DetectionConfig, in hundredths.                                         *)
(***************************************************************************)
DefaultConfig == [EdgeThreshold |-> 1, ContrastWeight |-> 30, ColorWeight |-> 20,
                  SaliencyWeight |-> 50, MinSubjectRatio |-> 5]

Configs == { DefaultConfig,
             [DefaultConfig EXCEPT !.MinSubjectRatio = 21],
             [DefaultConfig EXCEPT !.MinSubjectRatio = 25],
             [DefaultConfig EXCEPT !.EdgeThreshold = 10, !.ContrastWeight = 40] }

\* denominator of a saliency value: 8 neighbours, 3 channels, hundredths
SalDen == 8 * 3 * 100

(***************************************************************************)
(* Region                                                                  *)
(***************************************************************************)
Region(x, y, w, h, s) == [X |-> x, Y |-> y, Width |-> w, Height |-> h, Score |-> s]

Area(r) == r.Width * r.Height

\* scores: n/d saliency units
Zero == [n |-> 0, d |-> 1]
One == [n |-> SalDen, d |-> 1]
\* a < b on scores
ScoreLess(a, b) == IF a.d = b.d THEN a.n < b.n ELSE a.n * b.d < b.n * a.d

(***************************************************************************)
(* calculateSaliencyMap                                                    *)
(***************************************************************************)
Neighbors == << <<-1, -1>>, <<-1, 0>>, <<-1, 1>>, <<0, -1>>, <<0, 1>>, <<1, -1>>, <<1, 0>>, <<1, 1>> >>

\* colorDiff between two pixels, on the 16-bit scale:
\* sqrt(dr*dr + dg*dg + db*db) with every difference a multiple of RGBA(1)
colorDiff(c1, c2) ==
  LET dr == (RGBA(c1[1]) - RGBA(c2[1])) \div RGBA(1)
      dg == (RGBA(c1[2]) - RGBA(c2[2])) \div RGBA(1)
      db == (RGBA(c1[3]) - RGBA(c2[3])) \div RGBA(1)
  IN  RGBA(1) * ISqrt(dr * dr + dg * dg + db * db)

RECURSIVE edgeSum(_, _, _, _)
edgeSum(img, x, y, k) ==
  IF k > Len(Neighbors) THEN 0
  ELSE colorDiff(At(img, x, y), At(img, x + Neighbors[k][1], y + Neighbors[k][2]))
       + edgeSum(img, x, y, k + 1)

\* saliency of an interior pixel with the two weights exchanged
saliencyAt_weightsSwapped(cfg, img, x, y) ==
  LET c == At(img, x, y)
      bsum == RGBA(c[1]) + RGBA(c[2]) + RGBA(c[3])
  IN  (3 * cfg.ColorWeight * edgeSum(img, x, y, 1) + 8 * cfg.ContrastWeight * bsum) \div 65535

\* saliency of an interior pixel, in 1/SalDen:
\*   ContrastWeight * edgeSum/(8*65535) + ColorWeight * (r+g+b)/(3*65535)
saliencyAt(cfg, img, x, y) ==
  LET c == At(img, x, y)
      bsum == RGBA(c[1]) + RGBA(c[2]) + RGBA(c[3])
  IN  (3 * cfg.ContrastWeight * edgeSum(img, x, y, 1) + 8 * cfg.ColorWeight * bsum) \div 65535

\* the saliency computed for the cells of the border too
calculateSaliencyMap_withBorder(cfg, img) ==
  [y \in 0..(img.H - 1) |->
     [x \in 0..(img.W - 1) |-> saliencyAt(cfg, img, x, y)]]

calculateSaliencyMap(cfg, img) ==
  [y \in 0..(img.H - 1) |->
     [x \in 0..(img.W - 1) |->
        IF y >= 1 /\ y < img.H - 1 /\ x >= 1 /\ x < img.W - 1
        THEN saliencyAt(cfg, img, x, y) ELSE 0]]

(***************************************************************************)
(* findImportantRegions                                                    *)
(***************************************************************************)
RECURSIVE rowSum(_, _, _, _)
rowSum(row, rx, x1, acc) ==
  IF rx >= x1 THEN acc ELSE rowSum(row, rx + 1, x1, acc + row[rx])

RECURSIVE windowSum(_, _, _, _, _, _)
windowSum(sal, x0, x1, ry, y1, acc) ==
  IF ry >= y1 THEN acc
  ELSE windowSum(sal, x0, x1, ry + 1, y1, acc + rowSum(sal[ry], x0, x1, 0))

\* calculateRegionScore: mean saliency of the window clipped to the grid
calculateRegionScore(sal, gridW, gridH, x, y, width, height) ==
  LET x1 == Min(x + width, gridW)
      y1 == Min(y + height, gridH)
      count == Max(x1 - x, 0) * Max(y1 - y, 0)
  IN  IF count = 0 THEN Zero
      ELSE [n |-> windowSum(sal, x, x1, y, y1, 0), d |-> count]

windowSizes(width) == << width \div 20, width \div 16, width \div 12, width \div 8, width \div 4 >>

\* score >= EdgeThreshold
AboveThreshold_orEqual(cfg, score) == score.n * 100 >= cfg.EdgeThreshold * SalDen * score.d

\* score > EdgeThreshold
AboveThreshold(cfg, score) == score.n * 100 > cfg.EdgeThreshold * SalDen * score.d

\* the windows of one size, y outer and x inner, that clear the threshold
scanSize(cfg, sal, width, height, windowSize) ==
  IF windowSize < 10 THEN << >>
  ELSE
    LET step == windowSize \div 8
        ny == IF height - windowSize < 0 THEN 0 ELSE (height - windowSize) \div step + 1
        nx == IF width - windowSize < 0 THEN 0 ELSE (width - windowSize) \div step + 1
        all == [k \in 1..(ny * nx) |->
                  LET y == ((k - 1) \div nx) * step
                      x == ((k - 1) % nx) * step
                  IN  Region(x, y, windowSize, windowSize,
                             calculateRegionScore(sal, width, height, x, y, windowSize, windowSize))]
    IN  SelectSeq(all, LAMBDA r : AboveThreshold(cfg, r.Score))

findImportantRegions(cfg, sal, width, height) ==
  LET ws == windowSizes(width)
  IN  scanSize(cfg, sal, width, height, ws[1]) \o scanSize(cfg, sal, width, height, ws[2])
      \o scanSize(cfg, sal, width, height, ws[3]) \o scanSize(cfg, sal, width, height, ws[4])
      \o scanSize(cfg, sal, width, height, ws[5])

(***************************************************************************)
(* filterAndScoreRegions                                                   *)
(***************************************************************************)
swap(f, i, j) == [f EXCEPT ![i] = f[j], ![j] = f[i]]

\* the inner loop with the comparison turned around (ascending order)
RECURSIVE sortInner_ascending(_, _, _)
sortInner_ascending(f, i, j) ==
  IF j > Len(f) THEN f
  ELSE sortInner_ascending(IF ScoreLess(f[j].Score, f[i].Score) THEN swap(f, i, j) ELSE f, i, j + 1)

\* the inner loop swapping on <= instead of <
RECURSIVE sortInner_swapsTies(_, _, _)
sortInner_swapsTies(f, i, j) ==
  IF j > Len(f) THEN f
  ELSE sortInner_swapsTies(IF ~ScoreLess(f[j].Score, f[i].Score) THEN swap(f, i, j) ELSE f, i, j + 1)

\* the inner loop: for j := i+1; j < len; j++ (indices from 1 here)
RECURSIVE sortInner(_, _, _)
sortInner(f, i, j) ==
  IF j > Len(f) THEN f
  ELSE sortInner(IF ScoreLess(f[i].Score, f[j].Score) THEN swap(f, i, j) ELSE f, i, j + 1)

\* the outer loop: for i := 0; i < len-1; i++
RECURSIVE sortOuter(_, _)
sortOuter(f, i) ==
  IF i > Len(f) - 1 THEN f ELSE sortOuter(sortInner(f, i, i + 1), i + 1)

\* the minimum area taken from the width alone
minArea_widthOnly(cfg, imageWidth, imageHeight) == (imageWidth * cfg.MinSubjectRatio) \div 100

\* minArea := int(float64(imageArea) * MinSubjectRatio)
minArea(cfg, imageWidth, imageHeight) == (imageWidth * imageHeight * cfg.MinSubjectRatio) \div 100

filterRegions(cfg, regions, imageWidth, imageHeight) ==
  SelectSeq(regions, LAMBDA r : Area(r) >= minArea(cfg, imageWidth, imageHeight))

filterAndScoreRegions(cfg, regions, imageWidth, imageHeight) ==
  sortOuter(filterRegions(cfg, regions, imageWidth, imageHeight), 1)

(***************************************************************************)
(* DetectSubjects                                                          *)
(***************************************************************************)
maxRegions == 10

\* the slice taken one element too long
truncate_offByOne(filteredRegions) ==
  IF Len(filteredRegions) > maxRegions THEN SubSeq(filteredRegions, 1, maxRegions + 1)
  ELSE filteredRegions

truncate(filteredRegions) ==
  IF Len(filteredRegions) > maxRegions THEN SubSeq(filteredRegions, 1, maxRegions)
  ELSE filteredRegions

\* The saliency grid, the scanner's output and the filtered, sorted list are
\* functions of the configuration and the image alone.
SaliencyTable == [cfg \in Configs |-> [img \in Images |-> calculateSaliencyMap(cfg, img)]]

RawTable == [cfg \in Configs |-> [img \in Images |->
               findImportantRegions(cfg, SaliencyTable[cfg][img], img.W, img.H)]]

FilteredTable == [cfg \in Configs |-> [img \in Images |->
                    filterAndScoreRegions(cfg, RawTable[cfg][img], img.W, img.H)]]

DetectSubjects(cfg, img) == truncate(FilteredTable[cfg][img])

(***************************************************************************)
(* scorecropPosition and findOptimalCropPosition                           *)
(***************************************************************************)
\* common denominator of the terms (overlapArea / Area) * Score
RECURSIVE termDen(_, _)
termDen(subjects, k) ==
  IF k > Len(subjects) THEN 1
  ELSE LET a == Area(subjects[k]) * subjects[k].Score.d
       IN  LCM(IF a > 0 THEN a ELSE 1, termDen(subjects, k + 1))

overlapArea(subject, cropX, cropY, cropWidth, cropHeight) ==
  LET overlapX1 == Max(cropX, subject.X)
      overlapY1 == Max(cropY, subject.Y)
      overlapX2 == Min(cropX + cropWidth, subject.X + subject.Width)
      overlapY2 == Min(cropY + cropHeight, subject.Y + subject.Height)
  IN  IF overlapX2 > overlapX1 /\ overlapY2 > overlapY1
      THEN (overlapX2 - overlapX1) * (overlapY2 - overlapY1) ELSE 0

RECURSIVE overlapSum(_, _, _, _, _, _, _)
overlapSum(subjects, k, den, cropX, cropY, cropWidth, cropHeight) ==
  IF k > Len(subjects) THEN 0
  ELSE LET s == subjects[k]
           oa == overlapArea(s, cropX, cropY, cropWidth, cropHeight)
           term == IF oa > 0 THEN oa * s.Score.n * (den \div (Area(s) * s.Score.d)) ELSE 0
       IN  term + overlapSum(subjects, k + 1, den, cropX, cropY, cropWidth, cropHeight)

\* scorecropPosition with the sum capped at 1
scorecropPosition_capped(subjects, cropX, cropY, cropWidth, cropHeight) ==
  IF Len(subjects) = 0 THEN One
  ELSE LET den == termDen(subjects, 1)
           sum == overlapSum(subjects, 1, den, cropX, cropY, cropWidth, cropHeight)
       IN  [n |-> Min(sum, SalDen * den), d |-> den]

scorecropPosition(subjects, cropX, cropY, cropWidth, cropHeight) ==
  IF Len(subjects) = 0 THEN One
  ELSE LET den == termDen(subjects, 1)
       IN  [n |-> overlapSum(subjects, 1, den, cropX, cropY, cropWidth, cropHeight), d |-> den]

stepSize(cropWidth, cropHeight) ==
  LET s == Max(cropWidth, cropHeight) \div 20 IN IF s < 10 THEN 10 ELSE s

\* number of loop iterations of: for v := 0; v <= limit; v += step
steps(limit, step) == IF limit < 0 THEN 0 ELSE limit \div step + 1

\* the scan replacing the best window on a score that is not smaller
RECURSIVE scanPositions_lastWins(_, _, _, _, _, _, _, _)
scanPositions_lastWins(subjects, cropWidth, cropHeight, step, nx, ny, k, best) ==
  IF k > nx * ny THEN best
  ELSE LET y == ((k - 1) \div nx) * step
           x == ((k - 1) % nx) * step
           score == scorecropPosition(subjects, x, y, cropWidth, cropHeight)
       IN  scanPositions_lastWins(subjects, cropWidth, cropHeight, step, nx, ny, k + 1,
                                  IF ~ScoreLess(score, best.Score)
                                  THEN Region(x, y, cropWidth, cropHeight, score) ELSE best)

\* the scan, position k of nx*ny, y outer and x inner
RECURSIVE scanPositions(_, _, _, _, _, _, _, _)
scanPositions(subjects, cropWidth, cropHeight, step, nx, ny, k, best) ==
  IF k > nx * ny THEN best
  ELSE LET y == ((k - 1) \div nx) * step
           x == ((k - 1) % nx) * step
           score == scorecropPosition(subjects, x, y, cropWidth, cropHeight)
       IN  scanPositions(subjects, cropWidth, cropHeight, step, nx, ny, k + 1,
                         IF ScoreLess(best.Score, score)
                         THEN Region(x, y, cropWidth, cropHeight, score) ELSE best)

findOptimalCropPosition(subjects, cropWidth, cropHeight, imageWidth, imageHeight) ==
  LET centered == Region(GoDiv(imageWidth - cropWidth, 2), GoDiv(imageHeight - cropHeight, 2),
                         cropWidth, cropHeight, Zero)
      step == stepSize(cropWidth, cropHeight)
  IN  scanPositions(subjects, cropWidth, cropHeight, step,
                    steps(imageWidth - cropWidth, step), steps(imageHeight - cropHeight, step),
                    1, centered)

(***************************************************************************)
(* FindBestCropRegion                                                      *)
(***************************************************************************)
\* the comparison turned around
widerThanImage_flipped(r, width, height) == height # 0 /\ r[1] * height < width * r[2]

\* targetAspectRatio > float64(width)/float64(height); the quotient is +Inf
\* or NaN when height = 0 and the comparison is then false
widerThanImage(r, width, height) == height # 0 /\ r[1] * height > width * r[2]

\* the constrained side rounded to nearest instead of truncated
cropSize_rounded(r, width, height) ==
  IF widerThanImage(r, width, height)
  THEN <<width, (2 * width * r[2] + r[1]) \div (2 * r[1])>>
  ELSE <<(2 * height * r[1] + r[2]) \div (2 * r[2]), height>>

\* <<cropWidth, cropHeight>>
cropSize(r, width, height) ==
  IF widerThanImage(r, width, height)
  THEN <<width, (width * r[2]) \div r[1]>>
  ELSE <<(height * r[1]) \div r[2], height>>

FindBestCropRegionOf(cfg, img, r) ==
  LET size == cropSize(r, img.W, img.H)
  IN  findOptimalCropPosition(DetectSubjects(cfg, img), size[1], size[2], img.W, img.H)

(***************************************************************************)
(* GetDominantColors                                                       *)
(***************************************************************************)
\* (v >> 8) & 0xf0 of a 16-bit channel, ignoring the 4-bit mask
quantize_unmasked(v) == (v \div 256) % 256

\* (v >> 8) & 0xf0 of a 16-bit channel
quantize(v) == (((v \div 256) \div 16) % 16) * 16

\* colorKey of a pixel: (r << 16) | (g << 8) | b of its quantized channels
colorKey(c) ==
  quantize(RGBA(c[1])) * 65536 + quantize(RGBA(c[2])) * 256 + quantize(RGBA(c[3]))

\* color.RGBA{r, g, b, 255} of a key; the alpha, always 255, is left out
keyColor(key) == << (key \div 65536) % 256, (key \div 256) % 256, key % 256 >>

\* the pixels of the region clamped to the bounds of the image
regionPixels(img, region) ==
  LET startX == Max(region.X, 0)
      startY == Max(region.Y, 0)
      endX == Min(region.X + region.Width, img.W)
      endY == Min(region.Y + region.Height, img.H)
  IN  { <<x, y>> : x \in startX..(endX - 1), y \in startY..(endY - 1) }

\* the colour histogram colorMap
histogram(img, region) ==
  LET pixels == regionPixels(img, region)
      keyAt(p) == colorKey(At(img, p[1], p[2]))
  IN  [ key \in { keyAt(p) : p \in pixels } |->
          Cardinality({ p \in pixels : keyAt(p) = key }) ]

\* maxCount: the greatest count of the histogram, 0 when it is empty
maxCountOf(colorMap) ==
  IF DOMAIN colorMap = {} THEN 0
  ELSE CHOOSE m \in { colorMap[k] : k \in DOMAIN colorMap } :
         \A k \in DOMAIN colorMap : colorMap[k] <= m

\* half of the peak taken as the threshold
threshold_half(maxCount) == maxCount \div 2

\* threshold := maxCount / 4
threshold(maxCount) == maxCount \div 4

\* the second range loop over colorMap, visiting the keys in the order given:
\* append every colour of count >= threshold and break at 5 colours
RECURSIVE emitColors(_, _, _, _, _)
emitColors(colorMap, order, limit, k, colors) ==
  IF k > Len(order) THEN colors
  ELSE IF colorMap[order[k]] >= limit
       THEN LET appended == Append(colors, keyColor(order[k]))
            IN  IF Len(appended) >= 5 THEN appended
                ELSE emitColors(colorMap, order, limit, k + 1, appended)
       ELSE emitColors(colorMap, order, limit, k + 1, colors)

\* the orders in which a range loop may visit the keys of a map: Go leaves
\* the iteration order of a map unspecified
RECURSIVE Orders(_)
Orders(keys) ==
  IF keys = {} THEN { << >> }
  ELSE UNION { { <<k>> \o rest : rest \in Orders(keys \ {k}) } : k \in keys }

\* GetDominantColors when the map is visited in the given order
GetDominantColorsOf(img, region, order) ==
  LET colorMap == histogram(img, region)
  IN  emitColors(colorMap, order, threshold(maxCountOf(colorMap)), 1, << >>)

(***************************************************************************)
(* SmartCropper                                                            *)
(***************************************************************************)
\* CropConfig; PaddingRatio and QualityThreshold in hundredths
DefaultCropConfig == [PreserveAspectRatio |-> TRUE, AllowUpscaling |-> FALSE,
                      PaddingRatio |-> 10, QualityThreshold |-> 70]

CropConfigs == { DefaultCropConfig,
                 [PreserveAspectRatio |-> FALSE, AllowUpscaling |-> TRUE,
                  PaddingRatio |-> 0, QualityThreshold |-> 0] }

Square == [Width |-> 1, Height |-> 1, Name |-> "square"]
Portrait == [Width |-> 3, Height |-> 4, Name |-> "portrait"]
Landscape == [Width |-> 4, Height |-> 3, Name |-> "landscape"]
Widescreen == [Width |-> 16, Height |-> 9, Name |-> "widescreen"]
Instagram == [Width |-> 4, Height |-> 5, Name |-> "instagram"]
Story == [Width |-> 9, Height |-> 16, Name |-> "story"]

CommonAspectRatios == <<Square, Portrait, Landscape, Widescreen, Instagram, Story>>

\* image.Rect(x0, y0, x1, y1): the rectangle, its corners put in order
imageRect(x0, y0, x1, y1) ==
  [x1 |-> Min(x0, x1), y1 |-> Min(y0, y1), x2 |-> Max(x0, x1), y2 |-> Max(y0, y1)]

\* img.Bounds(): W x H from (minX, minY), from (0, 0) for an image without origin
imageBounds(img) ==
  IF "minX" \in DOMAIN img
  THEN imageRect(img.minX, img.minY, img.minX + img.W, img.minY + img.H)
  ELSE imageRect(0, 0, img.W, img.H)

\* the pixels of the image, counted from its top-left corner: what the
\* detector reads through img.At(x+bounds.Min.X, y+bounds.Min.Y)
content(img) == [W |-> img.W, H |-> img.H, pat |-> img.pat]

\* color.RGBA{}: the zero colour, transparent black
ZeroColor == <<0, 0, 0, 0>>

\* image.Point{x, y}.In(rect)
pointIn(x, y, rect) == rect.x1 <= x /\ x < rect.x2 /\ rect.y1 <= y /\ y < rect.y2

\* img.At(x, y) in the coordinates of the image's bounds
imageAt(img, x, y) ==
  LET bounds == imageBounds(img)
  IN  IF ~pointIn(x, y, bounds) THEN ZeroColor
      ELSE At(img, x - bounds.x1, y - bounds.y1)

\* cropImageToRegion: the crop rectangle of the croppedImage, clamped to the bounds
cropImageToRegion(img, region) ==
  LET bounds == imageBounds(img)
  IN  imageRect(Max(region.X, bounds.x1), Max(region.Y, bounds.y1),
                Min(region.X + region.Width, bounds.x2),
                Min(region.Y + region.Height, bounds.y2))

\* img.ColorModel() of an image that records its model
ColorModel(img) == img.model

\* &croppedImage{original, bounds}
croppedImage(original, bounds) == [original |-> original, bounds |-> bounds]

\* (*croppedImage).Bounds
croppedBounds(c) == imageRect(0, 0, c.bounds.x2 - c.bounds.x1, c.bounds.y2 - c.bounds.y1)

\* (*croppedImage).At reading the original without the offset of the crop
croppedAt_noOffset(c, x, y) ==
  IF ~pointIn(x, y, croppedBounds(c)) THEN ZeroColor
  ELSE imageAt(c.original, x, y)

\* (*croppedImage).At
croppedAt(c, x, y) ==
  IF ~pointIn(x, y, croppedBounds(c)) THEN ZeroColor
  ELSE imageAt(c.original, x + c.bounds.x1, y + c.bounds.y1)

\* (*croppedImage).ColorModel
croppedColorModel(c) == ColorModel(c.original)

(***************************************************************************)
(* package processing: CalculateOptimalCropBox.  A float64 is the exact    *)
(* fraction <<n, d>> in lowest terms, d > 0.                               *)
(***************************************************************************)
Frac(n, d) == LET g == GCD(Abs(n), d) IN <<n \div g, d \div g>>
FracOf(i) == <<i, 1>>
FracAdd(a, b) == Frac(a[1] * b[2] + b[1] * a[2], a[2] * b[2])
FracSub(a, b) == Frac(a[1] * b[2] - b[1] * a[2], a[2] * b[2])
FracMul(a, b) == Frac(a[1] * b[1], a[2] * b[2])
\* a / b for b > 0
FracDiv(a, b) == Frac(a[1] * b[2], a[2] * b[1])
FracLess(a, b) == a[1] * b[2] < b[1] * a[2]
FracMin(a, b) == IF FracLess(b, a) THEN b ELSE a

\* clamp(v, lo, hi)
clamp(v, lo, hi) ==
  IF FracLess(v, lo) THEN lo
  ELSE IF FracLess(hi, v) THEN hi
  ELSE v

\* types.Box
Box(x, y, w, h) == [X |-> x, Y |-> y, W |-> w, H |-> h]

\* the zoom CalculateOptimalCropBox works with
effectiveZoom(zoom) ==
  clamp(IF ~FracLess(FracOf(0), zoom) THEN FracOf(1) ELSE zoom, <<1, 100>>, FracOf(1))

\* CalculateOptimalCropBox(centerX, centerY, targetWidth, targetHeight,
\*                         imgWidth, imgHeight, zoom)
CalculateOptimalCropBox(centerX, centerY, targetWidth, targetHeight, imgWidth, imgHeight, zoom) ==
  LET r == Frac(targetWidth, targetHeight)
      cx == FracMul(centerX, FracOf(imgWidth))
      cy == FracMul(centerY, FracOf(imgHeight))
      halfWMax == FracMin(cx, FracSub(FracOf(imgWidth), cx))
      halfHMax == FracMin(cy, FracSub(FracOf(imgHeight), cy))
      maxWidthPx == FracMin(FracMul(FracOf(2), halfWMax),
                            FracMul(r, FracMul(FracOf(2), halfHMax)))
      widthPx == FracMul(maxWidthPx, effectiveZoom(zoom))
      heightPx == FracDiv(widthPx, r)
      x0 == clamp(FracSub(cx, FracDiv(widthPx, FracOf(2))), FracOf(0),
                  FracSub(FracOf(imgWidth), widthPx))
      y0 == clamp(FracSub(cy, FracDiv(heightPx, FracOf(2))), FracOf(0),
                  FracSub(FracOf(imgHeight), heightPx))
  IN  Box(FracDiv(x0, FracOf(imgWidth)), FracDiv(y0, FracOf(imgHeight)),
          FracDiv(widthPx, FracOf(imgWidth)), FracDiv(heightPx, FracOf(imgHeight)))

\* a quality is [nan, v]: v in 1/(10*SalDen), or NaN when the float is NaN
Quality(v) == [nan |-> FALSE, v |-> v]
NaN == [nan |-> TRUE, v |-> 0]

\* the quality before clamping.  The callers pass an image of positive
\* width and height; a region of height 0 makes cropRatio +Inf or NaN and
\* ratioAccuracy NaN.
rawQuality(img, region, r) ==
  LET originalArea == img.W * img.H
      cropArea == region.Width * region.Height
      preservationRatio == (SalDen * cropArea) \div originalArea
      cw == region.Width * r[2]
      tw == r[1] * region.Height
      ratioAccuracy == SalDen - (SalDen * Abs(cw - tw)) \div Max(cw, tw)
      subjectScore == region.Score.n \div region.Score.d
      centerX == img.W \div 2
      centerY == img.H \div 2
      cropCenterX == region.X + GoDiv(region.Width, 2)
      cropCenterY == region.Y + GoDiv(region.Height, 2)
      maxDistance2 == img.W * img.W + img.H * img.H
      distance2 == (centerX - cropCenterX) * (centerX - cropCenterX)
                   + (centerY - cropCenterY) * (centerY - cropCenterY)
      centeringScore == SalDen - (SalDen * ISqrt((10000 * distance2) \div maxDistance2)) \div 100
  IN  IF region.Height = 0 THEN NaN
      ELSE Quality(3 * preservationRatio + 3 * ratioAccuracy + 3 * subjectScore + centeringScore)

\* 1.0 in quality units
QOne == 10 * SalDen

\* the upper clamp left out
clampQuality_noUpperClamp(q) ==
  IF q.nan THEN q
  ELSE IF q.v < 0 THEN Quality(0)
  ELSE q

\* the two clamps; a NaN passes both comparisons unchanged
clampQuality(q) ==
  IF q.nan THEN q
  ELSE IF q.v > QOne THEN Quality(QOne)
  ELSE IF q.v < 0 THEN Quality(0)
  ELSE q

calculateCropQuality(img, region, r) == clampQuality(rawQuality(img, region, r))

NilRegion == Region(0, 0, 0, 0, Zero)

NoRet == [subjects |-> << >>, region |-> NilRegion, image |-> "nil",
          aspect |-> <<0, 1>>, quality |-> Quality(0), err |-> "nil"]

\* the error DetectSubjects returns with its list, when the list is empty too
DetectSubjectsErr_whenEmpty(filteredRegions) ==
  IF Len(filteredRegions) = 0 THEN "no subjects found" ELSE "nil"

\* the error DetectSubjects returns with its list: always nil
DetectSubjectsErr(filteredRegions) == "nil"

\* FindBestCropRegion as its caller sees it: the region and the error, which
\* is the error of DetectSubjects
FindBestCropRegionResult(cfg, img, r) ==
  LET subjects == DetectSubjects(cfg, img)
      err == DetectSubjectsErr(subjects)
  IN  IF err # "nil" THEN [NoRet EXCEPT !.err = err]
      ELSE [NoRet EXCEPT !.subjects = subjects,
                         !.region = FindBestCropRegionOf(cfg, img, r)]

\* CropToRatio as a function of the detector, the image and the ratio
CropToRatioOf(cfg, img, r) ==
  IF img.W = 0 \/ img.H = 0
  THEN [NoRet EXCEPT !.err = "invalid image dimensions"]
  ELSE LET found == FindBestCropRegionResult(cfg, content(img), r)
           cropRegion == found.region
       IN  IF found.err # "nil"
           THEN [NoRet EXCEPT !.err = "failed to find optimal crop region"]
           ELSE [NoRet EXCEPT !.region = cropRegion,
                              !.image = cropImageToRegion(img, cropRegion),
                              !.aspect = r,
                              !.quality = calculateCropQuality(img, cropRegion, r)]

\* CropToSize refusing only a target larger in both dimensions
CropToSizeOf_bothLarger(cfg, ccfg, img, targetWidth, targetHeight) ==
  IF ~ccfg.AllowUpscaling /\ (targetWidth > img.W /\ targetHeight > img.H)
  THEN [NoRet EXCEPT !.err = "target size is larger than original and upscaling is disabled"]
  ELSE CropToRatioOf(cfg, img, <<targetWidth, targetHeight>>)

\* CropToSize
CropToSizeOf(cfg, ccfg, img, targetWidth, targetHeight) ==
  IF ~ccfg.AllowUpscaling /\ (targetWidth > img.W \/ targetHeight > img.H)
  THEN [NoRet EXCEPT !.err = "target size is larger than original and upscaling is disabled"]
  ELSE CropToRatioOf(cfg, img, <<targetWidth, targetHeight>>)

\* CropToAspectRatio
CropToAspectRatioOf(cfg, img, aspectRatio) ==
  CropToRatioOf(cfg, img, <<aspectRatio.Width, aspectRatio.Height>>)

\* results = append(results, result), the new result put in front
appendResult_prepend(results, result) == <<result>> \o results

\* results = append(results, result)
appendResult(results, result) == Append(results, result)

\* the loop of CropToMultipleRatios from the k-th ratio on; a nil slice is
\* the empty sequence
RECURSIVE multipleLoop(_, _, _, _, _)
multipleLoop(cfg, img, ratios, k, results) ==
  IF k > Len(ratios) THEN [results |-> results, err |-> "nil"]
  ELSE LET result == CropToAspectRatioOf(cfg, img, ratios[k])
       IN  IF result.err # "nil"
           THEN [results |-> << >>, err |-> "failed to crop"]
           ELSE multipleLoop(cfg, img, ratios, k + 1, appendResult(results, result))

CropToMultipleRatiosOf(cfg, img, ratios) == multipleLoop(cfg, img, ratios, 1, << >>)

\* result.Quality >= c.config.QualityThreshold taken to hold always
meetsThreshold_always(ccfg, quality) == TRUE

\* result.Quality >= c.config.QualityThreshold; false for a NaN quality
meetsThreshold(ccfg, quality) ==
  ~quality.nan /\ quality.v * 100 >= ccfg.QualityThreshold * QOne

\* results[name] = result
setEntry(results, name, result) ==
  [n \in DOMAIN results \cup {name} |-> IF n = name THEN result ELSE results[n]]

\* the loop of GetOptimalCrops from the k-th common ratio on
RECURSIVE optimalLoop(_, _, _, _, _)
optimalLoop(cfg, ccfg, img, k, results) ==
  IF k > Len(CommonAspectRatios) THEN results
  ELSE LET ratio == CommonAspectRatios[k]
           result == CropToAspectRatioOf(cfg, img, ratio)
       IN  IF result.err = "nil" /\ meetsThreshold(ccfg, result.quality)
           THEN optimalLoop(cfg, ccfg, img, k + 1, setEntry(results, ratio.Name, result))
           ELSE optimalLoop(cfg, ccfg, img, k + 1, results)

\* GetOptimalCrops: the map and the error, always nil
GetOptimalCropsOf(cfg, ccfg, img) ==
  [crops |-> optimalLoop(cfg, ccfg, img, 1, << >>), err |-> "nil"]

(***************************************************************************)
(* Goroutines calling one shared detector.  A goroutine holds the arguments *)
(* and the result of its call; the slices and the map a call allocates     *)
(* (saliencyMap, regions, filteredRegions, colorMap) are buffers.          *)
(***************************************************************************)
Goroutines == 1..NumGoroutines

Idle == [pc |-> "idle", op |-> "none", img |-> [W |-> 0, H |-> 0, pat |-> "red"],
         r |-> <<1, 1>>, region |-> NilRegion, result |-> << >>]

NoGoroutines == [g \in Goroutines |-> Idle]

EmptyBuffers == [saliencyMap |-> << >>, regions |-> << >>, subjects |-> << >>,
                 colorMap |-> << >>]

NoBuffers == [g \in Goroutines |-> EmptyBuffers]

\* one set of buffers kept for all calls
ownBuffers_shared(g) == 1

\* the buffers of the call goroutine g runs: every call makes its own
ownBuffers(g) == g

(***************************************************************************)
(* The detector and the cropper in use: one call at a time, any public     *)
(* operation with any input; Return hands the result back to the caller.   *)
(***************************************************************************)
NoCall == [op |-> "none", img |-> [W |-> 0, H |-> 0, pat |-> "red"], r |-> <<1, 1>>]

\* fin and fout are the argument and the result of a function applied on
\* its own; no function is applied while the detector serves calls
NoInput == [fn |-> "none"]

Init ==
  /\ config \in Configs
  /\ cropConfig \in CropConfigs
  /\ pc = "idle"
  /\ call = NoCall
  /\ ret = NoRet
  /\ fin = NoInput
  /\ fout = << >>
  /\ goroutines = NoGoroutines
  /\ buffers = NoBuffers

Invoke(op, img, r, result) ==
  /\ pc = "idle"
  /\ pc' = "done"
  /\ call' = [op |-> op, img |-> img, r |-> r]
  /\ ret' = result
  /\ UNCHANGED <<config, cropConfig, fin, fout, goroutines, buffers>>

DetectSubjectsCall ==
  \E img \in Images :
    LET filteredRegions == DetectSubjects(config, img)
    IN  Invoke("DetectSubjects", img, <<1, 1>>,
               [NoRet EXCEPT !.subjects = filteredRegions,
                             !.err = DetectSubjectsErr(filteredRegions)])

FindBestCropRegionCall ==
  \E img \in Images, r \in Ratios :
    Invoke("FindBestCropRegion", img, r, FindBestCropRegionResult(config, img, r))

CropToRatioCall ==
  \E img \in Images, r \in Ratios :
    Invoke("CropToRatio", img, r, CropToRatioOf(config, img, r))

CropToAspectRatioCall ==
  \E img \in Images, k \in 1..Len(CommonAspectRatios) :
    LET ar == CommonAspectRatios[k]
    IN  Invoke("CropToAspectRatio", img, <<ar.Width, ar.Height>>,
               CropToRatioOf(config, img, <<ar.Width, ar.Height>>))

CropToSizeCall ==
  \E img \in Images, tw \in 1..MaxRatio, th \in 1..MaxRatio :
    Invoke("CropToSize", img, <<tw, th>>, CropToSizeOf(config, cropConfig, img, tw, th))

\* the lists of aspect ratios handed to CropToMultipleRatios
RatioChoices == <<Square, Portrait, Widescreen>>
RatioLists ==
  UNION { [1..n -> { RatioChoices[k] : k \in 1..Len(RatioChoices) }] : n \in 0..MultiMaxLen }

CropToMultipleRatiosCall ==
  \E img \in Images, ratios \in RatioLists :
    /\ pc = "idle"
    /\ pc' = "done"
    /\ call' = [op |-> "CropToMultipleRatios", img |-> img, r |-> <<1, 1>>, ratios |-> ratios]
    /\ ret' = CropToMultipleRatiosOf(config, img, ratios)
    /\ UNCHANGED <<config, cropConfig, fin, fout, goroutines, buffers>>

GetOptimalCropsCall ==
  \E img \in Images :
    Invoke("GetOptimalCrops", img, <<1, 1>>, GetOptimalCropsOf(config, cropConfig, img))

Return ==
  /\ pc = "done"
  /\ pc' = "idle"
  /\ call' = NoCall
  /\ ret' = NoRet
  /\ UNCHANGED <<config, cropConfig, fin, fout, goroutines, buffers>>

Next ==
  \/ DetectSubjectsCall
  \/ FindBestCropRegionCall
  \/ CropToRatioCall
  \/ CropToAspectRatioCall
  \/ CropToSizeCall
  \/ CropToMultipleRatiosCall
  \/ GetOptimalCropsCall
  \/ Return

Spec == Init /\ [][Next]_vars


(***************************************************************************)
(* filterAndScoreRegions applied to an arbitrary list of candidates.  The  *)
(* k-th candidate has X = k; the image is 8 x 5, so that minArea is 2 under *)
(* the default configuration and candidates of width 1 are discarded.      *)
(***************************************************************************)
SortImage == [W |-> 8, H |-> 5, pat |-> "black"]

Candidate(k, c) == Region(k, 0, c[1], 1, [n |-> c[2], d |-> 1])

\* the lists of n candidates, one for each choice f of widths and scores
SortInput(n, f) == [fn |-> "filterAndScoreRegions", regions |-> [k \in 1..n |-> Candidate(k, f[k])]]

InitSort ==
  /\ config = DefaultConfig
  /\ cropConfig = DefaultCropConfig
  /\ pc = "idle"
  /\ call = NoCall
  /\ ret = NoRet
  /\ \E n \in 0..SortMaxLen :
        \E f \in [1..n -> (1..2) \X (1..SortMaxScore)] : fin = SortInput(n, f)
  /\ fout = << >>
  /\ goroutines = NoGoroutines
  /\ buffers = NoBuffers

ApplyFilterAndScore ==
  /\ pc = "idle"
  /\ fin.fn = "filterAndScoreRegions"
  /\ pc' = "done"
  /\ fout' = filterAndScoreRegions(config, fin.regions, SortImage.W, SortImage.H)
  /\ UNCHANGED <<config, cropConfig, call, ret, fin, goroutines, buffers>>

NextSort == ApplyFilterAndScore

SpecSort == InitSort /\ [][NextSort]_vars

(***************************************************************************)
(* calculateCropQuality applied to an arbitrary region of positive area,   *)
(* inside the image or far from it, on an image of positive dimensions.    *)
(***************************************************************************)
QualityInput(w, h, x, y, rw, rh, s, r) ==
  [fn |-> "calculateCropQuality",
   img |-> [W |-> w, H |-> h, pat |-> "black"],
   region |-> Region(x, y, rw, rh, [n |-> s * SalDen, d |-> 1]),
   r |-> r]

InitQuality ==
  /\ config = DefaultConfig
  /\ cropConfig = DefaultCropConfig
  /\ pc = "idle"
  /\ call = NoCall
  /\ ret = NoRet
  /\ \E w \in 1..QMaxDim, h \in 1..QMaxDim, x \in {0, 1, QFar}, y \in {0, QFar},
        rw \in 1..QMaxDim, rh \in 1..QMaxDim, s \in 0..QMaxScore, r \in Ratios :
        fin = QualityInput(w, h, x, y, rw, rh, s, r)
  /\ fout = << >>
  /\ goroutines = NoGoroutines
  /\ buffers = NoBuffers

ApplyCropQuality ==
  /\ pc = "idle"
  /\ fin.fn = "calculateCropQuality"
  /\ pc' = "done"
  /\ fout' = calculateCropQuality(fin.img, fin.region, fin.r)
  /\ UNCHANGED <<config, cropConfig, call, ret, fin, goroutines, buffers>>

NextQuality == ApplyCropQuality

SpecQuality == InitQuality /\ [][NextQuality]_vars

(***************************************************************************)
(* GetDominantColors applied to an image and a region.  The call reads no  *)
(* field of the detector; its result depends on the order in which the     *)
(* range loop visits the histogram, any order being possible.              *)
(***************************************************************************)
ColorInput(img, region) == [fn |-> "GetDominantColors", img |-> img, region |-> region]

InitColors ==
  /\ config = DefaultConfig
  /\ cropConfig = DefaultCropConfig
  /\ pc = "idle"
  /\ call = NoCall
  /\ ret = NoRet
  /\ \E img \in ColorImages : \E region \in ColorRegions(img) : fin = ColorInput(img, region)
  /\ fout = << >>
  /\ goroutines = NoGoroutines
  /\ buffers = NoBuffers

ApplyGetDominantColors ==
  /\ pc = "idle"
  /\ fin.fn = "GetDominantColors"
  /\ pc' = "done"
  /\ LET colorMap == histogram(fin.img, fin.region)
         limit == threshold(maxCountOf(colorMap))
     IN  \E order \in Orders(DOMAIN colorMap) :
           fout' = emitColors(colorMap, order, limit, 1, << >>)
  /\ UNCHANGED <<config, cropConfig, call, ret, fin, goroutines, buffers>>

NextColors == ApplyGetDominantColors

SpecColors == InitColors /\ [][NextColors]_vars

(***************************************************************************)
(* Concurrent calls on one shared SubjectDetector.  Each goroutine makes   *)
(* one call and runs it step by step, one function of the call per step;   *)
(* the steps of different goroutines interleave in any order.  config is   *)
(* the detector's configuration, read by the steps that use a field of it. *)
(***************************************************************************)
ConcImages == { [W |-> BigW, H |-> BigH - 2, pat |-> p] : p \in {"stripes", "left"} }
ConcRatios == { <<1, 1>>, <<2, 1>> }
ConcColorImage == [W |-> ColorW, H |-> ColorH - 1, pat |-> "stripes"]
ConcRegions == { Region(0, 0, 2, 1, Zero) }

\* findImportantRegions on a saliency map held in a buffer; the regions of a
\* map already tabulated are taken from the table
regionsOf(cfg, saliencyMap, width, height) ==
  LET known == { img \in ConcImages :
                   img.W = width /\ img.H = height /\ SaliencyTable[cfg][img] = saliencyMap }
  IN  IF known # {} THEN RawTable[cfg][CHOOSE img \in known : TRUE]
      ELSE findImportantRegions(cfg, saliencyMap, width, height)

\* filterAndScoreRegions on a list held in a buffer, likewise
filteredOf(cfg, regions, width, height) ==
  LET known == { img \in ConcImages :
                   img.W = width /\ img.H = height /\ RawTable[cfg][img] = regions }
  IN  IF known # {} THEN FilteredTable[cfg][CHOOSE img \in known : TRUE]
      ELSE filterAndScoreRegions(cfg, regions, width, height)

InitConcurrent ==
  /\ config = DefaultConfig
  /\ cropConfig = DefaultCropConfig
  /\ pc = "idle"
  /\ call = NoCall
  /\ ret = NoRet
  /\ fin = NoInput
  /\ fout = << >>
  /\ goroutines = NoGoroutines
  /\ buffers = NoBuffers

\* goroutine g takes a step from the place from; the steps of a call touch
\* nothing but the goroutine and the buffers
Step(g, from) ==
  /\ goroutines[g].pc = from
  /\ UNCHANGED <<config, cropConfig, pc, call, ret, fin, fout>>

BeginDetectSubjects(g) ==
  /\ Step(g, "idle")
  /\ \E img \in ConcImages :
        goroutines' = [goroutines EXCEPT ![g] =
                         [Idle EXCEPT !.pc = "saliency", !.op = "DetectSubjects", !.img = img]]
  /\ UNCHANGED buffers

BeginFindBestCropRegion(g) ==
  /\ Step(g, "idle")
  /\ \E img \in ConcImages, r \in ConcRatios :
        goroutines' = [goroutines EXCEPT ![g] =
                         [Idle EXCEPT !.pc = "saliency", !.op = "FindBestCropRegion",
                                      !.img = img, !.r = r]]
  /\ UNCHANGED buffers

BeginGetDominantColors(g) ==
  /\ Step(g, "idle")
  /\ \E region \in ConcRegions :
        goroutines' = [goroutines EXCEPT ![g] =
                         [Idle EXCEPT !.pc = "histogram", !.op = "GetDominantColors",
                                      !.img = ConcColorImage, !.region = region]]
  /\ UNCHANGED buffers

\* saliencyMap := d.calculateSaliencyMap(img)
StepSaliency(g) ==
  /\ Step(g, "saliency")
  /\ buffers' = [buffers EXCEPT ![ownBuffers(g)].saliencyMap = SaliencyTable[config][goroutines[g].img]]
  /\ goroutines' = [goroutines EXCEPT ![g].pc = "regions"]

\* regions := d.findImportantRegions(saliencyMap, width, height)
StepRegions(g) ==
  /\ Step(g, "regions")
  /\ buffers' = [buffers EXCEPT ![ownBuffers(g)].regions =
                    regionsOf(config, buffers[ownBuffers(g)].saliencyMap,
                              goroutines[g].img.W, goroutines[g].img.H)]
  /\ goroutines' = [goroutines EXCEPT ![g].pc = "filter"]

\* filteredRegions := d.filterAndScoreRegions(regions, width, height), cut to
\* maxRegions; DetectSubjects returns it, FindBestCropRegion goes on
StepFilter(g) ==
  /\ Step(g, "filter")
  /\ LET filteredRegions ==
            truncate(filteredOf(config, buffers[ownBuffers(g)].regions,
                                goroutines[g].img.W, goroutines[g].img.H))
     IN  /\ buffers' = [buffers EXCEPT ![ownBuffers(g)].subjects = filteredRegions]
         /\ goroutines' =
               IF goroutines[g].op = "DetectSubjects"
               THEN [goroutines EXCEPT ![g].pc = "done", ![g].result = filteredRegions]
               ELSE [goroutines EXCEPT ![g].pc = "position"]

\* bestRegion := d.findOptimalCropPosition(subjects, cropWidth, cropHeight, width, height)
StepPosition(g) ==
  /\ Step(g, "position")
  /\ LET img == goroutines[g].img
         size == cropSize(goroutines[g].r, img.W, img.H)
     IN  goroutines' = [goroutines EXCEPT
                          ![g].pc = "done",
                          ![g].result = findOptimalCropPosition(buffers[ownBuffers(g)].subjects,
                                                                size[1], size[2], img.W, img.H)]
  /\ UNCHANGED buffers

\* the first loop of GetDominantColors fills colorMap
StepHistogram(g) ==
  /\ Step(g, "histogram")
  /\ buffers' = [buffers EXCEPT ![ownBuffers(g)].colorMap =
                    histogram(goroutines[g].img, goroutines[g].region)]
  /\ goroutines' = [goroutines EXCEPT ![g].pc = "emit"]

\* the loops over colorMap
StepEmit(g) ==
  /\ Step(g, "emit")
  /\ LET colorMap == buffers[ownBuffers(g)].colorMap
     IN  \E order \in Orders(DOMAIN colorMap) :
           goroutines' = [goroutines EXCEPT
                            ![g].pc = "done",
                            ![g].result = emitColors(colorMap, order,
                                                     threshold(maxCountOf(colorMap)), 1, << >>)]
  /\ UNCHANGED buffers

NextConcurrent ==
  \E g \in Goroutines :
    \/ BeginDetectSubjects(g)
    \/ BeginFindBestCropRegion(g)
    \/ BeginGetDominantColors(g)
    \/ StepSaliency(g)
    \/ StepRegions(g)
    \/ StepFilter(g)
    \/ StepPosition(g)
    \/ StepHistogram(g)
    \/ StepEmit(g)

SpecConcurrent == InitConcurrent /\ [][NextConcurrent]_vars

(***************************************************************************)
(* CropWithPadding called from several goroutines on one SmartCropper.     *)
(* A call reads config.PaddingRatio, writes its own value, runs            *)
(* CropToRatio and, when it returns, writes back the value it read; the    *)
(* goroutines interleave between these steps.                              *)
(***************************************************************************)
\* the paddingRatio goroutine g asks for, in hundredths
PaddingOf(g) == 10 * (g + 1)

PaddingImages == {[W |-> 0, H |-> 0, pat |-> "red"], [W |-> 3, H |-> 3, pat |-> "red"]}

\* a goroutine that has not called yet
NotCalling == [pc |-> "idle", paddingRatio |-> 0, originalPadding |-> 0, seen |-> 0,
               err |-> "nil"]

InitPadding ==
  /\ config = DefaultConfig
  /\ cropConfig \in CropConfigs
  /\ pc = "idle"
  /\ call = NoCall
  /\ ret = NoRet
  /\ fin = [fn |-> "CropWithPadding", PaddingRatio |-> cropConfig.PaddingRatio]
  /\ fout = << >>
  /\ goroutines = [g \in Goroutines |-> NotCalling]
  /\ buffers = NoBuffers

\* originalPadding := c.config.PaddingRatio
BeginCropWithPadding(g) ==
  /\ goroutines[g].pc \in {"idle", "returned"}
  /\ goroutines' = [goroutines EXCEPT ![g] =
                       [NotCalling EXCEPT !.pc = "saved", !.paddingRatio = PaddingOf(g),
                                          !.originalPadding = cropConfig.PaddingRatio]]
  /\ UNCHANGED <<config, cropConfig, pc, call, ret, fin, fout, buffers>>

\* c.config.PaddingRatio = paddingRatio
SetPadding(g) ==
  /\ goroutines[g].pc = "saved"
  /\ cropConfig' = [cropConfig EXCEPT !.PaddingRatio = goroutines[g].paddingRatio]
  /\ goroutines' = [goroutines EXCEPT ![g].pc = "set"]
  /\ UNCHANGED <<config, pc, call, ret, fin, fout, buffers>>

\* return c.CropToRatio(img, targetRatio), under the configuration of the moment
RunCropToRatio(g) ==
  /\ goroutines[g].pc = "set"
  /\ \E img \in PaddingImages :
        goroutines' = [goroutines EXCEPT ![g].pc = "cropped",
                                        ![g].seen = cropConfig.PaddingRatio,
                                        ![g].err = CropToRatioOf(config, img, <<1, 1>>).err]
  /\ UNCHANGED <<config, cropConfig, pc, call, ret, fin, fout, buffers>>

\* the deferred c.config.PaddingRatio = originalPadding
RestorePadding(g) ==
  /\ goroutines[g].pc = "cropped"
  /\ cropConfig' = [cropConfig EXCEPT !.PaddingRatio = goroutines[g].originalPadding]
  /\ goroutines' = [goroutines EXCEPT ![g].pc = "returned", ![g].originalPadding = 0]
  /\ UNCHANGED <<config, pc, call, ret, fin, fout, buffers>>

NextPadding ==
  \E g \in Goroutines :
    \/ BeginCropWithPadding(g)
    \/ SetPadding(g)
    \/ RunCropToRatio(g)
    \/ RestorePadding(g)

SpecPadding == InitPadding /\ [][NextPadding]_vars

(***************************************************************************)
(* calculateSaliencyMap alone, on images from 0x0 to SalMax x SalMax,      *)
(* uniform or not, under different weights.                                *)
(***************************************************************************)
SalConfigs == {DefaultConfig,
               [DefaultConfig EXCEPT !.EdgeThreshold = 10, !.ContrastWeight = 40],
               [DefaultConfig EXCEPT !.ContrastWeight = 0, !.ColorWeight = 50]}

SalImages == { [W |-> w, H |-> h, pat |-> p] :
                 w \in 0..SalMax, h \in 0..SalMax, p \in Patterns \cup {"red"} }

InitSaliency ==
  /\ config \in SalConfigs
  /\ cropConfig = DefaultCropConfig
  /\ pc = "idle"
  /\ call = NoCall
  /\ ret = NoRet
  /\ \E img \in SalImages : fin = [fn |-> "calculateSaliencyMap", img |-> img]
  /\ fout = << >>
  /\ goroutines = NoGoroutines
  /\ buffers = NoBuffers

ApplyCalculateSaliencyMap ==
  /\ pc = "idle"
  /\ fin.fn = "calculateSaliencyMap"
  /\ pc' = "done"
  /\ fout' = calculateSaliencyMap(config, fin.img)
  /\ UNCHANGED <<config, cropConfig, call, ret, fin, goroutines, buffers>>

NextSaliency == ApplyCalculateSaliencyMap

SpecSaliency == InitSaliency /\ [][NextSaliency]_vars

(***************************************************************************)
(* CropToRatio on images whose bounds start at (0,0) or away from it.      *)
(***************************************************************************)
Offsets == {0, 5, MaxOffset}

OffsetImages ==
  { [W |-> img.W, H |-> img.H, pat |-> img.pat, minX |-> ox, minY |-> oy] :
      img \in Images, ox \in Offsets, oy \in Offsets }

InitOffset ==
  /\ config = DefaultConfig
  /\ cropConfig = DefaultCropConfig
  /\ pc = "idle"
  /\ call = NoCall
  /\ ret = NoRet
  /\ \E img \in OffsetImages, r \in Ratios : fin = [fn |-> "CropToRatio", img |-> img, r |-> r]
  /\ fout = << >>
  /\ goroutines = NoGoroutines
  /\ buffers = NoBuffers

ApplyCropToRatio ==
  /\ pc = "idle"
  /\ fin.fn = "CropToRatio"
  /\ pc' = "done"
  /\ fout' = CropToRatioOf(config, fin.img, fin.r)
  /\ UNCHANGED <<config, cropConfig, call, ret, fin, goroutines, buffers>>

NextOffset == ApplyCropToRatio

SpecOffset == InitOffset /\ [][NextOffset]_vars

(***************************************************************************)
(* A croppedImage over an image and a crop rectangle inside it, asked for  *)
(* its bounds, its colour model and one pixel.                             *)
(***************************************************************************)
ViewInput(model, x1, x2, y1, y2, x, y) ==
  [fn |-> "croppedImage",
   img |-> [W |-> ViewW, H |-> ViewH, pat |-> "checker", model |-> model],
   rect |-> imageRect(x1, y1, x2, y2), x |-> x, y |-> y]

InitView ==
  /\ config = DefaultConfig
  /\ cropConfig = DefaultCropConfig
  /\ pc = "idle"
  /\ call = NoCall
  /\ ret = NoRet
  /\ \E model \in {"color.RGBAModel", "color.GrayModel"},
        x1 \in 0..ViewW, x2 \in 0..ViewW, y1 \in 0..ViewH, y2 \in 0..ViewH,
        x \in -1..ViewW, y \in -1..ViewH :
        x1 <= x2 /\ y1 <= y2 /\ fin = ViewInput(model, x1, x2, y1, y2, x, y)
  /\ fout = << >>
  /\ goroutines = NoGoroutines
  /\ buffers = NoBuffers

ApplyCroppedImage ==
  /\ pc = "idle"
  /\ fin.fn = "croppedImage"
  /\ pc' = "done"
  /\ LET c == croppedImage(fin.img, fin.rect)
     IN  fout' = [view |-> c, bounds |-> croppedBounds(c), at |-> croppedAt(c, fin.x, fin.y),
                  model |-> croppedColorModel(c)]
  /\ UNCHANGED <<config, cropConfig, call, ret, fin, goroutines, buffers>>

NextView == ApplyCroppedImage

SpecView == InitView /\ [][NextView]_vars

(***************************************************************************)
(* CalculateOptimalCropBox alone, for a centre in the unit square, small   *)
(* positive sizes and zooms on both sides of 0, 0.01 and 1.                *)
(***************************************************************************)
Zooms == {<<-1, 1>>, <<0, 1>>, <<1, 200>>, <<1, 100>>, <<1, 2>>, <<1, 1>>, <<2, 1>>}

InitBox ==
  /\ config = DefaultConfig
  /\ cropConfig = DefaultCropConfig
  /\ pc = "idle"
  /\ call = NoCall
  /\ ret = NoRet
  /\ \E kx \in 0..CenterDen, ky \in 0..CenterDen,
        tw \in 1..BoxMaxTarget, th \in 1..BoxMaxTarget,
        iw \in 1..BoxMaxDim, ih \in 1..BoxMaxDim, zoom \in Zooms :
        fin = [fn |-> "CalculateOptimalCropBox",
               centerX |-> Frac(kx, CenterDen), centerY |-> Frac(ky, CenterDen),
               targetWidth |-> tw, targetHeight |-> th,
               imgWidth |-> iw, imgHeight |-> ih, zoom |-> zoom]
  /\ fout = << >>
  /\ goroutines = NoGoroutines
  /\ buffers = NoBuffers

ApplyCalculateOptimalCropBox ==
  /\ pc = "idle"
  /\ fin.fn = "CalculateOptimalCropBox"
  /\ pc' = "done"
  /\ fout' = CalculateOptimalCropBox(fin.centerX, fin.centerY, fin.targetWidth,
                                     fin.targetHeight, fin.imgWidth, fin.imgHeight, fin.zoom)
  /\ UNCHANGED <<config, cropConfig, call, ret, fin, goroutines, buffers>>

NextBox == ApplyCalculateOptimalCropBox

SpecBox == InitBox /\ [][NextBox]_vars

(***************************************************************************)
(* findImportantRegions alone, on the saliency grid of images too low for  *)
(* any window, for the smaller window only, and for both.                  *)
(***************************************************************************)
ScanConfigs == {DefaultConfig, [DefaultConfig EXCEPT !.EdgeThreshold = 0],
                [DefaultConfig EXCEPT !.EdgeThreshold = 10, !.ContrastWeight = 40]}

ScanImages ==
  { [W |-> ScanW \div 2, H |-> h, pat |-> p] : h \in 8..11, p \in Patterns }
    \cup { [W |-> ScanW, H |-> ScanH, pat |-> p] : p \in Patterns }

InitScan ==
  /\ config \in ScanConfigs
  /\ cropConfig = DefaultCropConfig
  /\ pc = "idle"
  /\ call = NoCall
  /\ ret = NoRet
  /\ \E img \in ScanImages :
        fin = [fn |-> "findImportantRegions", img |-> img,
               saliencyMap |-> calculateSaliencyMap(config, img)]
  /\ fout = << >>
  /\ goroutines = NoGoroutines
  /\ buffers = NoBuffers

ApplyFindImportantRegions ==
  /\ pc = "idle"
  /\ fin.fn = "findImportantRegions"
  /\ pc' = "done"
  /\ fout' = findImportantRegions(config, fin.saliencyMap, fin.img.W, fin.img.H)
  /\ UNCHANGED <<config, cropConfig, call, ret, fin, goroutines, buffers>>

NextScan == ApplyFindImportantRegions

SpecScan == InitScan /\ [][NextScan]_vars

(***************************************************************************)
(* findOptimalCropPosition and scorecropPosition alone, on short subject   *)
(* lists: subjects of 10x10 at offsets of 5 and 10, scores 0, 1/2 and 1,   *)
(* and image and crop sizes with one, several or no window positions.      *)
(***************************************************************************)
Half == [n |-> SalDen, d |-> 2]

PosScores == {Zero, Half, One}

\* <<imageWidth, imageHeight, cropWidth, cropHeight>>
PosShapes == {<<20, 20, 10, 10>>, <<30, 10, 10, 10>>, <<30, 10, 20, 10>>,
              <<260, 10, 240, 10>>, <<20, 10, 40, 10>>}

PosInput(subjects, shape) ==
  [fn |-> "position", subjects |-> subjects, imageWidth |-> shape[1],
   imageHeight |-> shape[2], cropWidth |-> shape[3], cropHeight |-> shape[4]]

RECURSIVE PosLists(_)
PosLists(n) ==
  IF n = 0 THEN {<< >>}
  ELSE LET shorter == PosLists(n - 1)
       IN  shorter \cup
           {Append(l, Region(x, y, 10, 10, sc)) :
              l \in {m \in shorter : Len(m) = n - 1},
              x \in {0, 5, 10}, y \in {0, 10}, sc \in PosScores}

InitPosition ==
  /\ config = DefaultConfig
  /\ cropConfig = DefaultCropConfig
  /\ pc = "idle"
  /\ call = NoCall
  /\ ret = NoRet
  /\ \E subjects \in PosLists(PosMaxLen), shape \in PosShapes :
        fin = PosInput(subjects, shape)
  /\ fout = << >>
  /\ goroutines = NoGoroutines
  /\ buffers = NoBuffers

ApplyFindOptimalCropPosition ==
  /\ pc = "idle"
  /\ fin.fn = "position"
  /\ pc' = "done"
  /\ fout' = [fn |-> "findOptimalCropPosition",
              region |-> findOptimalCropPosition(fin.subjects, fin.cropWidth, fin.cropHeight,
                                                 fin.imageWidth, fin.imageHeight)]
  /\ UNCHANGED <<config, cropConfig, call, ret, fin, goroutines, buffers>>

ApplyScorecropPosition ==
  /\ pc = "idle"
  /\ fin.fn = "position"
  /\ pc' = "done"
  /\ \E cropX \in {0, 10}, cropY \in {0, 10} :
        fout' = [fn |-> "scorecropPosition", cropX |-> cropX, cropY |-> cropY,
                 score |-> scorecropPosition(fin.subjects, cropX, cropY,
                                             fin.cropWidth, fin.cropHeight)]
  /\ UNCHANGED <<config, cropConfig, call, ret, fin, goroutines, buffers>>

NextPosition == ApplyFindOptimalCropPosition \/ ApplyScorecropPosition

SpecPosition == InitPosition /\ [][NextPosition]_vars

(***************************************************************************)
(* Properties of FindBestCropRegion                                        *)
(***************************************************************************)
Done(op) == pc = "done" /\ call.op = op

PositiveImage(img) == img.W > 0 /\ img.H > 0

\* C1: for an image of positive width and height and a positive target
\* ratio, the region FindBestCropRegion returns lies inside the image.
C1_CropInsideImage ==
  (Done("FindBestCropRegion") /\ PositiveImage(call.img)) =>
     /\ ret.region.X >= 0
     /\ ret.region.Y >= 0
     /\ ret.region.X + ret.region.Width <= call.img.W
     /\ ret.region.Y + ret.region.Height <= call.img.H

\* a search over subjects moved the window off the left edge
C1_Witness ==
  /\ Done("FindBestCropRegion") /\ PositiveImage(call.img)
  /\ Len(ret.subjects) > 0
  /\ ret.region.X > 0
  /\ ret.region.Width > 0 /\ ret.region.Height > 0

\* the window centered in the image, with score 0
Centered(img, w, h) == Region((img.W - w) \div 2, (img.H - h) \div 2, w, h, Zero)

\* C2: with no subject detected, FindBestCropRegion returns exactly the
\* centered window of the computed crop size, with score 0.
C2_CenteredWhenNoSubjects ==
  (Done("FindBestCropRegion") /\ PositiveImage(call.img) /\ Len(ret.subjects) = 0) =>
     ret.region = Centered(call.img, ret.region.Width, ret.region.Height)

\* C3: for an image of positive dimensions and any positive target ratio
\* the returned region has width > 0 and height > 0.
C3_PositiveCropSize ==
  (Done("FindBestCropRegion") /\ PositiveImage(call.img)) =>
     ret.region.Width > 0 /\ ret.region.Height > 0

\* round(n/d) to the nearest integer, halves away from zero (n >= 0, d > 0)
Round(n, d) == (2 * n + d) \div (2 * d)

\* C4 as stated: the constrained side is round(W/r) or round(H*r).
C4_RoundedCropSize ==
  (Done("FindBestCropRegion") /\ PositiveImage(call.img)) =>
     IF call.r[1] * call.img.H > call.img.W * call.r[2]
     THEN /\ ret.region.Width = call.img.W
          /\ ret.region.Height = Round(call.img.W * call.r[2], call.r[1])
     ELSE /\ ret.region.Height = call.img.H
          /\ ret.region.Width = Round(call.img.H * call.r[1], call.r[2])

\* C4, amended: if r > W/H then cropWidth = W and cropHeight is W/r
\* truncated to an integer, otherwise cropHeight = H and cropWidth is H*r
\* truncated; the crop never exceeds the image in either dimension.
C4_TruncatedCropSize ==
  (Done("FindBestCropRegion") /\ PositiveImage(call.img)) =>
     /\ IF call.r[1] * call.img.H > call.img.W * call.r[2]
        THEN /\ ret.region.Width = call.img.W
             /\ ret.region.Height * call.r[1] <= call.img.W * call.r[2]
             /\ call.img.W * call.r[2] < (ret.region.Height + 1) * call.r[1]
        ELSE /\ ret.region.Height = call.img.H
             /\ ret.region.Width * call.r[2] <= call.img.H * call.r[1]
             /\ call.img.H * call.r[1] < (ret.region.Width + 1) * call.r[2]
     /\ ret.region.Width <= call.img.W
     /\ ret.region.Height <= call.img.H

\* the quotient was not whole and rounding would have gone up
C4_Witness ==
  /\ Done("FindBestCropRegion") /\ PositiveImage(call.img)
  /\ call.r[1] * call.img.H > call.img.W * call.r[2]
  /\ ret.region.Height > 0
  /\ ret.region.Height < Round(call.img.W * call.r[2], call.r[1])

(***************************************************************************)
(* Properties of DetectSubjects                                            *)
(***************************************************************************)
\* C6: with edgeThreshold >= 0, DetectSubjects returns at most 10 regions,
\* each of width > 0, height > 0 and score >= 0.
C6_AtMostTenValidRegions ==
  (Done("DetectSubjects") /\ config.EdgeThreshold >= 0) =>
     /\ Len(ret.subjects) <= 10
     /\ \A k \in 1..Len(ret.subjects) :
          /\ ret.subjects[k].Width > 0
          /\ ret.subjects[k].Height > 0
          /\ ~ScoreLess(ret.subjects[k].Score, Zero)

\* more than 10 regions survived the filter and 10 were returned
C6_Witness ==
  /\ Done("DetectSubjects")
  /\ Len(FilteredTable[config][call.img]) > 10
  /\ Len(ret.subjects) = 10

\* C7: the list DetectSubjects returns is non-increasing in score.
C7_SortedByScore ==
  Done("DetectSubjects") =>
     \A k \in 1..(Len(ret.subjects) - 1) :
        ~ScoreLess(ret.subjects[k].Score, ret.subjects[k + 1].Score)

\* the scanner produced a lower score before a higher one, and the
\* returned list holds regions of different scores
C7_Witness ==
  /\ Done("DetectSubjects")
  /\ \E i, j \in 1..Len(RawTable[config][call.img]) :
        /\ i < j
        /\ ScoreLess(RawTable[config][call.img][i].Score, RawTable[config][call.img][j].Score)
  /\ Len(ret.subjects) > 1
  /\ ScoreLess(ret.subjects[Len(ret.subjects)].Score, ret.subjects[1].Score)

\* C8 as stated: every returned region has area >= round(imageArea * minSubjectRatio).
C8_RoundedMinArea ==
  Done("DetectSubjects") =>
     \A k \in 1..Len(ret.subjects) :
        Area(ret.subjects[k]) >= Round(call.img.W * call.img.H * config.MinSubjectRatio, 100)

\* r is one of the regions of the list
InList(r, list) == \E k \in 1..Len(list) : list[k] = r

\* C8, amended: minArea is imageArea * minSubjectRatio truncated to an
\* integer; every region that survives the filter, and every region
\* DetectSubjects returns, has area >= that value (area + 1 exceeds the
\* product), and every candidate with a smaller area is discarded.
C8_TruncatedMinArea ==
  Done("DetectSubjects") =>
     LET product == call.img.W * call.img.H * config.MinSubjectRatio
         raw == RawTable[config][call.img]
         kept == FilteredTable[config][call.img]
     IN  /\ \A k \in 1..Len(kept) : (Area(kept[k]) + 1) * 100 > product
         /\ \A k \in 1..Len(ret.subjects) : (Area(ret.subjects[k]) + 1) * 100 > product
         /\ \A k \in 1..Len(raw) :
               (Area(raw[k]) + 1) * 100 <= product => ~InList(raw[k], kept)

\* regions survived a minimum area that truncation lowered
C8_Witness ==
  /\ Done("DetectSubjects")
  /\ Len(ret.subjects) > 0
  /\ (call.img.W * call.img.H * config.MinSubjectRatio) % 100 # 0
  /\ config.MinSubjectRatio > DefaultConfig.MinSubjectRatio

(***************************************************************************)
(* Rejection of empty images                                               *)
(***************************************************************************)
CropOps == {"FindBestCropRegion", "CropToRatio", "CropToAspectRatio", "CropToSize"}

\* C10: a crop request on an image of width or height zero returns an
\* error, whichever public entry point is used.
C10_EmptyImageRejected ==
  (pc = "done" /\ call.op \in CropOps /\ ~PositiveImage(call.img)) => ret.err # "nil"

(***************************************************************************)
(* Properties of calculateCropQuality                                      *)
(***************************************************************************)
Applied(fn) == pc = "done" /\ fin.fn = fn

\* C5: for a region of positive area and a positive target ratio the
\* quality lies in [0,1], also when region.Score exceeds 1.
C5_QualityInUnitInterval ==
  Applied("calculateCropQuality") =>
     /\ ~fout.nan
     /\ fout.v >= 0
     /\ fout.v <= QOne

\* a region whose score exceeds 1 took the sum above 1 and the clamp cut it
C5_Witness ==
  /\ Applied("calculateCropQuality")
  /\ ScoreLess(One, fin.region.Score)
  /\ rawQuality(fin.img, fin.region, fin.r).v > QOne
  /\ fout.v = QOne

(***************************************************************************)
(* Properties of the sort in filterAndScoreRegions                         *)
(***************************************************************************)
\* the candidate survives the filter: its area is at least imageArea *
\* MinSubjectRatio truncated
Survives(c) == (Area(c) + 1) * 100 > SortImage.W * SortImage.H * config.MinSubjectRatio

SameScore(a, b) == ~ScoreLess(a.Score, b.Score) /\ ~ScoreLess(b.Score, a.Score)

\* C9 as stated: two surviving regions of equal score appear in the output
\* in the order in which the scanner produced them (X is that order).
C9_StableSort ==
  Applied("filterAndScoreRegions") =>
     \A i, j \in 1..Len(fout) :
        (i < j /\ SameScore(fout[i], fout[j])) => fout[i].X < fout[j].X

\* C9, amended: the sort is not stable.  Its output is a permutation of the
\* surviving regions whose first element is the earliest-scanned region of
\* the greatest score; other regions of equal score may change order.
C9_PermutationFirstMaxFirst ==
  Applied("filterAndScoreRegions") =>
     LET survivors == { k \in 1..Len(fin.regions) : Survives(fin.regions[k]) }
     IN  /\ Len(fout) = Cardinality(survivors)
         /\ \A k \in survivors : InList(fin.regions[k], fout)
         /\ \A k \in survivors :
               /\ ~ScoreLess(fout[1].Score, fin.regions[k].Score)
               /\ SameScore(fout[1], fin.regions[k]) => fout[1].X <= k

\* the greatest score is attained twice, after a region of a lower score
C9_Witness ==
  /\ Applied("filterAndScoreRegions")
  /\ Len(fout) >= 3
  /\ SameScore(fout[1], fout[2])
  /\ \E k \in 1..Len(fin.regions) :
        /\ Survives(fin.regions[k])
        /\ ScoreLess(fin.regions[k].Score, fout[1].Score)
        /\ k < fout[1].X

(***************************************************************************)
(* Properties of the error results                                         *)
(***************************************************************************)
\* no candidate of the image is large enough to be kept as a subject
NothingClears(cfg, img) ==
  \A k \in 1..Len(RawTable[cfg][img]) :
     Area(RawTable[cfg][img][k]) < minArea(cfg, img.W, img.H)

\* C11: on an image of positive width and height, tiny and uniform images
\* included, DetectSubjects and FindBestCropRegion return a nil error, and
\* DetectSubjects returns the empty list when no region clears the thresholds.
C11_NoErrorOnValidImage ==
  (pc = "done" /\ call.op \in {"DetectSubjects", "FindBestCropRegion"}
     /\ PositiveImage(call.img)) =>
     /\ ret.err = "nil"
     /\ (call.op = "DetectSubjects" /\ NothingClears(config, call.img)) => ret.subjects = << >>

\* DetectSubjects has returned the empty list and no error for a 1 x 1 image
C11_Witness ==
  /\ Done("DetectSubjects")
  /\ call.img.W = 1 /\ call.img.H = 1
  /\ ret.subjects = << >>
  /\ ret.err = "nil"

(***************************************************************************)
(* Properties of GetDominantColors                                         *)
(***************************************************************************)
\* a colour with the low 4 bits of every channel cleared
ClearLow4(c) == << c[1] - (c[1] % 16), c[2] - (c[2] % 16), c[3] - (c[3] % 16) >>

InBounds(img, region) ==
  /\ region.X >= 0 /\ region.Y >= 0
  /\ region.Width > 0 /\ region.Height > 0
  /\ region.X + region.Width <= img.W
  /\ region.Y + region.Height <= img.H

Uniform(img, region) ==
  \A p, q \in regionPixels(img, region) : At(img, p[1], p[2]) = At(img, q[1], q[2])

\* the number of pixels of the clamped region that fall into the bucket of c
BucketCount(img, region, c) ==
  Cardinality({ p \in regionPixels(img, region) : ClearLow4(At(img, p[1], p[2])) = c })

\* the buckets of the clamped region and the count of the fullest
Buckets(img, region) == { ClearLow4(At(img, p[1], p[2])) : p \in regionPixels(img, region) }

PeakCount(img, region) ==
  LET counts == { BucketCount(img, region, c) : c \in Buckets(img, region) }
  IN  IF counts = {} THEN 0 ELSE CHOOSE m \in counts : \A n \in counts : n <= m

Returned(colors) == { colors[k] : k \in 1..Len(colors) }

\* C15: over a non-empty region inside the image whose pixels all have one
\* colour, GetDominantColors returns exactly one colour: that colour with
\* the low 4 bits of each channel cleared.
C15_UniformRegionOneColor ==
  (Applied("GetDominantColors") /\ InBounds(fin.img, fin.region) /\ Uniform(fin.img, fin.region)) =>
     fout = << ClearLow4(At(fin.img, fin.region.X, fin.region.Y)) >>

\* an orange region has given the single colour (192, 96, 48)
C15_Witness ==
  /\ Applied("GetDominantColors")
  /\ InBounds(fin.img, fin.region) /\ Uniform(fin.img, fin.region)
  /\ At(fin.img, fin.region.X, fin.region.Y) = Orange
  /\ fout = << <<192, 96, 48>> >>

\* C16: when the region holds at least one pixel of the image, a bucket of
\* greatest count is among the colours returned.
C16_PeakBucketReturned ==
  (Applied("GetDominantColors") /\ regionPixels(fin.img, fin.region) # {}) =>
     \E c \in Buckets(fin.img, fin.region) :
        /\ BucketCount(fin.img, fin.region, c) = PeakCount(fin.img, fin.region)
        /\ c \in Returned(fout)

\* the buckets whose count reaches a quarter of the peak (integer division)
Qualifying(img, region) ==
  LET peak == PeakCount(img, region)
  IN  { c \in Buckets(img, region) : BucketCount(img, region, c) >= peak \div 4 }

\* C17: GetDominantColors returns at most 5 colours, each a bucket of the
\* clamped region whose count is at least maxCount / 4, and all such buckets
\* when there are at most 5 of them.
C17_AtMostFiveAboveThreshold ==
  Applied("GetDominantColors") =>
     LET qualifying == Qualifying(fin.img, fin.region)
     IN  /\ Len(fout) <= 5
         /\ Returned(fout) \subseteq qualifying
         /\ Cardinality(qualifying) <= 5 => Returned(fout) = qualifying

\* a bucket of the region stayed below the threshold and was left out while
\* the peak bucket was returned
C17_Witness ==
  /\ Applied("GetDominantColors")
  /\ Len(fout) = 1
  /\ \E c \in Buckets(fin.img, fin.region) :
        /\ c \notin Returned(fout)
        /\ BucketCount(fin.img, fin.region, c) > 0
        /\ BucketCount(fin.img, fin.region, c) < PeakCount(fin.img, fin.region) \div 4

\* C18: the colours returned for an image and a region, and their order, are
\* the same whichever order the histogram is visited in, so that two calls
\* with the same arguments agree.
C18_SameResultEveryOrder ==
  Applied("GetDominantColors") =>
     \A order \in Orders(DOMAIN histogram(fin.img, fin.region)) :
        fout = GetDominantColorsOf(fin.img, fin.region, order)

(***************************************************************************)
(* Properties of the batch operations                                      *)
(***************************************************************************)
\* the common aspect ratios whose crop of img succeeds with a quality that
\* is a number and at least the threshold
Acceptable(cfg, ccfg, img) ==
  { k \in 1..Len(CommonAspectRatios) :
      LET result == CropToAspectRatioOf(cfg, img, CommonAspectRatios[k])
      IN  /\ result.err = "nil"
          /\ ~result.quality.nan
          /\ result.quality.v * 100 >= ccfg.QualityThreshold * QOne }

\* C13: GetOptimalCrops returns no error and a map whose keys are exactly
\* the names of the common aspect ratios whose crop succeeded with quality
\* >= QualityThreshold, each mapped to that crop; no entry is below the
\* threshold.
C13_ExactlyCropsAboveThreshold ==
  Done("GetOptimalCrops") =>
     /\ ret.err = "nil"
     /\ DOMAIN ret.crops =
           { CommonAspectRatios[k].Name : k \in Acceptable(config, cropConfig, call.img) }
     /\ \A k \in Acceptable(config, cropConfig, call.img) :
           ret.crops[CommonAspectRatios[k].Name]
             = CropToAspectRatioOf(config, call.img, CommonAspectRatios[k])
     /\ \A name \in DOMAIN ret.crops :
           ret.crops[name].quality.v * 100 >= cropConfig.QualityThreshold * QOne

\* on an image of positive size some ratio was kept and another, whose crop
\* succeeded below the threshold, was dropped
C13_Witness ==
  /\ Done("GetOptimalCrops")
  /\ PositiveImage(call.img)
  /\ DOMAIN ret.crops # {}
  /\ \E k \in 1..Len(CommonAspectRatios) :
        /\ CommonAspectRatios[k].Name \notin DOMAIN ret.crops
        /\ ~CropToAspectRatioOf(config, call.img, CommonAspectRatios[k]).quality.nan

\* some ratio of the list cannot be cropped from the image
SomeRatioFails(cfg, img, ratios) ==
  \E k \in 1..Len(ratios) : CropToAspectRatioOf(cfg, img, ratios[k]).err # "nil"

\* C14: CropToMultipleRatios is all-or-nothing and keeps the order: when no
\* ratio fails it returns one result per ratio, the i-th for the i-th ratio;
\* when a ratio fails it returns the error and a nil list.
C14_AllOrNothingInOrder ==
  Done("CropToMultipleRatios") =>
     IF SomeRatioFails(config, call.img, call.ratios)
     THEN ret.err # "nil" /\ ret.results = << >>
     ELSE /\ ret.err = "nil"
          /\ Len(ret.results) = Len(call.ratios)
          /\ \A i \in 1..Len(call.ratios) :
                /\ ret.results[i].aspect = <<call.ratios[i].Width, call.ratios[i].Height>>
                /\ ret.results[i] = CropToAspectRatioOf(config, call.img, call.ratios[i])

\* two different ratios have been cropped, in the order given
C14_Witness ==
  /\ Done("CropToMultipleRatios")
  /\ ret.err = "nil"
  /\ Len(ret.results) = 2
  /\ call.ratios[1] # call.ratios[2]
  /\ ret.results[1].region # ret.results[2].region

\* a list of ratios was refused as a whole
C14_WitnessFailure ==
  /\ Done("CropToMultipleRatios")
  /\ Len(call.ratios) = 2
  /\ ret.err # "nil"
  /\ ret.results = << >>

(***************************************************************************)
(* Properties of CropToSize                                                *)
(***************************************************************************)
TooLarge == "target size is larger than original and upscaling is disabled"

LargerThanImage(img, targetWidth, targetHeight) == targetWidth > img.W \/ targetHeight > img.H

\* C19: when CropToSize succeeds, the image of its result is exactly
\* targetWidth wide and targetHeight high.
C19_ExactRequestedSize ==
  (Done("CropToSize") /\ ret.err = "nil") =>
     /\ ret.image.x2 - ret.image.x1 = call.r[1]
     /\ ret.image.y2 - ret.image.y1 = call.r[2]

\* C20: with AllowUpscaling false, CropToSize returns an error and no crop
\* when the target is wider or higher than the image; with AllowUpscaling
\* true the request is never refused for its size.
C20_UpscalingGuard ==
  Done("CropToSize") =>
     /\ (~cropConfig.AllowUpscaling /\ LargerThanImage(call.img, call.r[1], call.r[2])) =>
           (ret.err = TooLarge /\ ret.region = NilRegion /\ ret.quality = Quality(0))
     /\ cropConfig.AllowUpscaling =>
           /\ ret.err # TooLarge
           /\ PositiveImage(call.img) => ret.err = "nil"

\* a target higher but not wider than the image was refused
C20_Witness ==
  /\ Done("CropToSize")
  /\ ~cropConfig.AllowUpscaling
  /\ PositiveImage(call.img)
  /\ call.r[1] <= call.img.W /\ call.r[2] > call.img.H
  /\ ret.err = TooLarge

\* a target larger than the image was cropped when upscaling is allowed
C20_WitnessAllowed ==
  /\ Done("CropToSize")
  /\ cropConfig.AllowUpscaling
  /\ LargerThanImage(call.img, call.r[1], call.r[2])
  /\ ret.err = "nil"

(***************************************************************************)
(* Properties of concurrent calls                                          *)
(***************************************************************************)
\* the results the call of goroutine g can return when it runs alone: one
\* for DetectSubjects and FindBestCropRegion, one for each order of visiting
\* the histogram for GetDominantColors
AloneResults(g) ==
  LET c == goroutines[g]
  IN  CASE c.op = "DetectSubjects" -> { DetectSubjects(config, c.img) }
        [] c.op = "FindBestCropRegion" -> { FindBestCropRegionOf(config, c.img, c.r) }
        [] c.op = "GetDominantColors" ->
             { GetDominantColorsOf(c.img, c.region, order) :
                 order \in Orders(DOMAIN histogram(c.img, c.region)) }

InFlight(g) == goroutines[g].pc \notin {"idle", "done"}

\* every finished call has a result it returns when run alone, and a call
\* about to place the crop holds the subjects of its own image
ResultsAsAlone ==
  \A g \in Goroutines :
     /\ goroutines[g].pc = "done" => goroutines[g].result \in AloneResults(g)
     /\ goroutines[g].pc = "position" =>
           buffers[ownBuffers(g)].subjects = DetectSubjects(config, goroutines[g].img)

\* C12: calls of DetectSubjects, FindBestCropRegion and GetDominantColors
\* running concurrently on one detector never write its configuration, and
\* under every interleaving each returns a result it returns when run alone.
C12_ConcurrentCallsIndependent ==
  [](ResultsAsAlone) /\ [][config' = config]_vars

\* a call has finished with subjects found while a call on another image
\* is half-way through
C12_Witness ==
  \E g, h \in Goroutines :
     /\ goroutines[g].pc = "done" /\ goroutines[g].op = "FindBestCropRegion"
     /\ goroutines[g].result.Score # Zero
     /\ goroutines[h].pc = "filter"
     /\ goroutines[h].img # goroutines[g].img
     /\ buffers[ownBuffers(g)].saliencyMap # buffers[ownBuffers(h)].saliencyMap

(***************************************************************************)
(* Properties of croppedImage                                              *)
(***************************************************************************)
\* C21: a croppedImage over O and the rectangle [x1,x2) x [y1,y2) has the
\* bounds (0,0)-(x2-x1, y2-y1) and the colour model of O; its pixel (x, y)
\* is O's pixel (x+x1, y+y1) inside those bounds and the zero colour
\* outside; O itself is unchanged.
C21_CroppedImageView ==
  Applied("croppedImage") =>
     LET w == fin.rect.x2 - fin.rect.x1
         h == fin.rect.y2 - fin.rect.y1
         inside == 0 <= fin.x /\ fin.x < w /\ 0 <= fin.y /\ fin.y < h
     IN  /\ fout.bounds = [x1 |-> 0, y1 |-> 0, x2 |-> w, y2 |-> h]
         /\ inside => fout.at = At(fin.img, fin.x + fin.rect.x1, fin.y + fin.rect.y1)
         /\ ~inside => fout.at = ZeroColor
         /\ fout.model = fin.img.model
         /\ fout.view.original = fin.img

\* a pixel inside a view that starts away from the origin was read, its
\* colour differing from the original's pixel at the same coordinates
C21_Witness ==
  /\ Applied("croppedImage")
  /\ fin.rect.x1 > 0
  /\ fout.at # ZeroColor
  /\ fout.at # At(fin.img, fin.x, fin.y)

(***************************************************************************)
(* Properties of CalculateOptimalCropBox                                   *)
(***************************************************************************)
\* the box lies in the unit square
InUnitSquare(box) ==
  /\ ~FracLess(box.X, FracOf(0))
  /\ ~FracLess(box.Y, FracOf(0))
  /\ ~FracLess(FracOf(1), FracAdd(box.X, box.W))
  /\ ~FracLess(FracOf(1), FracAdd(box.Y, box.H))

\* (W*imgWidth)/(H*imgHeight) is defined and equals targetWidth/targetHeight
PixelAspectIs(box, imgWidth, imgHeight, targetWidth, targetHeight) ==
  /\ box.H[1] # 0
  /\ FracDiv(FracMul(box.W, FracOf(imgWidth)), FracMul(box.H, FracOf(imgHeight)))
       = Frac(targetWidth, targetHeight)

\* the zoom the claim says is used: 1 for zoom <= 0, else zoom brought into
\* [0.01, 1]
ClaimedZoom(zoom) ==
  IF zoom[1] <= 0 THEN <<1, 1>>
  ELSE IF FracLess(zoom, <<1, 100>>) THEN <<1, 100>>
  ELSE IF FracLess(<<1, 1>>, zoom) THEN <<1, 1>>
  ELSE zoom

\* C22: for a centre in [0,1]x[0,1], positive sizes and any zoom the box
\* returned by CalculateOptimalCropBox lies in the unit square, has the
\* pixel aspect ratio targetWidth/targetHeight, and is the box returned for
\* the zoom brought into range (1 for zoom <= 0, else clamped to [0.01, 1]).
C22_BoxInsideWithTargetAspect ==
  Applied("CalculateOptimalCropBox") =>
     /\ InUnitSquare(fout)
     /\ PixelAspectIs(fout, fin.imgWidth, fin.imgHeight, fin.targetWidth, fin.targetHeight)
     /\ fout = CalculateOptimalCropBox(fin.centerX, fin.centerY, fin.targetWidth,
                                       fin.targetHeight, fin.imgWidth, fin.imgHeight,
                                       ClaimedZoom(fin.zoom))

(***************************************************************************)
(* Properties of the crop-position search                                  *)
(***************************************************************************)
\* length of the overlap of the intervals [a1, a2) and [b1, b2)
IntervalOverlap(a1, a2, b1, b2) == Max(0, Min(a2, b2) - Max(a1, b1))

\* area of the intersection of a subject with the window
IntersectionArea(s, x, y, w, h) ==
  IntervalOverlap(x, x + w, s.X, s.X + s.Width)
    * IntervalOverlap(y, y + h, s.Y, s.Y + s.Height)

\* a denominator common to the terms of subjects lo..hi
RECURSIVE CommonDen(_, _, _)
CommonDen(subjects, lo, hi) ==
  IF lo > hi THEN 1
  ELSE IF lo = hi
  THEN Max(1, Area(subjects[lo]) * subjects[lo].Score.d)
  ELSE LET mid == (lo + hi) \div 2
       IN  LCM(CommonDen(subjects, lo, mid), CommonDen(subjects, mid + 1, hi))

\* the sum over the subjects lo..hi that intersect the window of
\* (intersectionArea / subjectArea) * subjectScore, as a multiple of 1/den
RECURSIVE WindowSum(_, _, _, _, _, _, _, _)
WindowSum(subjects, lo, hi, den, x, y, w, h) ==
  IF lo > hi THEN 0
  ELSE IF lo = hi
  THEN LET s == subjects[lo]
           ia == IntersectionArea(s, x, y, w, h)
       IN  IF ia > 0 THEN ia * s.Score.n * (den \div (Area(s) * s.Score.d)) ELSE 0
  ELSE LET mid == (lo + hi) \div 2
       IN  WindowSum(subjects, lo, mid, den, x, y, w, h)
             + WindowSum(subjects, mid + 1, hi, den, x, y, w, h)

\* the score of a window: 1 for an empty list, else the sum above
WindowScore(subjects, x, y, w, h) ==
  IF subjects = << >> THEN One
  ELSE LET den == CommonDen(subjects, 1, Len(subjects))
       IN  [n |-> WindowSum(subjects, 1, Len(subjects), den, x, y, w, h), d |-> den]

\* the positions the scan visits
GridStep(cropWidth, cropHeight) == Max(10, Max(cropWidth, cropHeight) \div 20)

GridPositions(cropWidth, cropHeight, imageWidth, imageHeight) ==
  LET step == GridStep(cropWidth, cropHeight)
  IN  {p \in {<<i * step, j * step>> : i \in 0..(Max(imageWidth - cropWidth, 0) \div step),
                                      j \in 0..(Max(imageHeight - cropHeight, 0) \div step)} :
         p[1] <= imageWidth - cropWidth /\ p[2] <= imageHeight - cropHeight}

\* p is visited before q: y outer, x inner
VisitedBefore(p, q) == p[2] < q[2] \/ (p[2] = q[2] /\ p[1] < q[1])

\* the earliest visited position attaining the maximum score when that
\* maximum is > 0, otherwise the centered window with score 0
BestWindow(subjects, cropWidth, cropHeight, imageWidth, imageHeight) ==
  LET P == GridPositions(cropWidth, cropHeight, imageWidth, imageHeight)
      scored == {<<p, WindowScore(subjects, p[1], p[2], cropWidth, cropHeight)>> : p \in P}
      positive == {e \in scored : ScoreLess(Zero, e[2])}
  IN  IF positive = {}
      THEN Region(GoDiv(imageWidth - cropWidth, 2), GoDiv(imageHeight - cropHeight, 2),
                  cropWidth, cropHeight, Zero)
      ELSE LET best == CHOOSE e \in positive :
                         \A f \in positive :
                            /\ ~ScoreLess(e[2], f[2])
                            /\ ~ScoreLess(f[2], e[2]) => ~VisitedBefore(f[1], e[1])
           IN  Region(best[1][1], best[1][2], cropWidth, cropHeight, best[2])

\* C23: the crop-position search of FindBestCropRegion scores the windows
\* against the full filtered and sorted subject list, so that the region
\* returned is the one found with the list before its truncation to 10.
C23_SearchUsesFullList ==
  Done("FindBestCropRegion") /\ PositiveImage(call.img) =>
     LET size == cropSize(call.r, call.img.W, call.img.H)
     IN  ret.region = BestWindow(FilteredTable[config][call.img], size[1], size[2],
                                 call.img.W, call.img.H)

\* C24: findOptimalCropPosition visits the positions x, y in {0, step,
\* 2*step, ...} up to imageWidth-cropWidth and imageHeight-cropHeight, with
\* step = max(10, max(cropWidth, cropHeight)/20), y outer and x inner, and
\* replaces the best only on a strictly greater score: it returns the
\* earliest visited position attaining the maximum score when that maximum
\* is > 0, and otherwise the centered window with score 0.
C24_EarliestMaximumWins ==
  (pc = "done" /\ fout.fn = "findOptimalCropPosition") =>
     fout.region = BestWindow(fin.subjects, fin.cropWidth, fin.cropHeight,
                              fin.imageWidth, fin.imageHeight)

\* a later position of another row and an earlier column ties the returned one
C24_Witness ==
  /\ pc = "done" /\ fout.fn = "findOptimalCropPosition"
  /\ ScoreLess(Zero, fout.region.Score)
  /\ \E p \in GridPositions(fin.cropWidth, fin.cropHeight, fin.imageWidth, fin.imageHeight) :
        /\ p[2] > fout.region.Y /\ p[1] < fout.region.X
        /\ WindowScore(fin.subjects, p[1], p[2], fin.cropWidth, fin.cropHeight)
             = fout.region.Score

\* C25: for a non-empty subject list the score of a window is the sum, over
\* exactly the subjects whose intersection with the window has positive
\* width and height, of (intersectionArea / subjectArea) * subjectScore;
\* the sum is not capped at 1.
C25_ScoreIsUncappedOverlapSum ==
  (pc = "done" /\ fout.fn = "scorecropPosition" /\ fin.subjects # << >>) =>
     fout.score = WindowScore(fin.subjects, fout.cropX, fout.cropY,
                              fin.cropWidth, fin.cropHeight)

\* a window scoring more than 1, one of its subjects only partly inside it
C25_Witness ==
  /\ pc = "done" /\ fout.fn = "scorecropPosition"
  /\ ScoreLess(One, fout.score)
  /\ \E i \in 1..Len(fin.subjects) :
        LET ia == IntersectionArea(fin.subjects[i], fout.cropX, fout.cropY,
                                   fin.cropWidth, fin.cropHeight)
        IN  0 < ia /\ ia < Area(fin.subjects[i])

(***************************************************************************)
(* Properties of findImportantRegions                                      *)
(***************************************************************************)
\* sum of the cells lo..hi of the s x s window at (x, y), counted row by row
RECURSIVE CellSum(_, _, _, _, _, _)
CellSum(sal, x, y, s, lo, hi) ==
  IF lo > hi THEN 0
  ELSE IF lo = hi THEN sal[y + (lo \div s)][x + (lo % s)]
  ELSE LET mid == (lo + hi) \div 2
       IN  CellSum(sal, x, y, s, lo, mid) + CellSum(sal, x, y, s, mid + 1, hi)

\* the mean saliency of the window, in 1/SalDen
WindowMean(sal, x, y, s) == [n |-> CellSum(sal, x, y, s, 0, s * s - 1), d |-> s * s]

\* mean > edgeThreshold, the threshold being in hundredths
MeanAboveThreshold(mean, edgeThreshold) == mean.n * 100 > edgeThreshold * SalDen * mean.d

\* the sides of the windows scanned on an image of width w
ScannedSizes(w) == {s \in {w \div 20, w \div 16, w \div 12, w \div 8, w \div 4} : s >= 10}

\* the windows scanned: squares at the multiples of max(1, s/8) inside the grid
ScannedWindows(w, h) ==
  {<<x, y, s>> \in (0..w) \X (0..h) \X ScannedSizes(w) :
      /\ x % Max(1, s \div 8) = 0 /\ y % Max(1, s \div 8) = 0
      /\ x + s <= w /\ y + s <= h}

\* C26: findImportantRegions emits a candidate for a scanned window if and
\* only if the mean saliency of the window is strictly greater than
\* edgeThreshold; every emitted region is a square of side s in {W/20, W/16,
\* W/12, W/8, W/4} with s >= 10, placed at multiples of max(1, s/8) on both
\* axes and fully inside the grid, its score being that mean; no region is
\* emitted for a size larger than the image height.
C26_EmittedIffMeanAboveThreshold ==
  Applied("findImportantRegions") =>
     LET scanned == {Region(win[1], win[2], win[3], win[3],
                            WindowMean(fin.saliencyMap, win[1], win[2], win[3])) :
                       win \in ScannedWindows(fin.img.W, fin.img.H)}
         expected == {r \in scanned : MeanAboveThreshold(r.Score, config.EdgeThreshold)}
         emitted == {fout[k] : k \in 1..Len(fout)}
     IN  emitted = expected

\* windows of both sizes were emitted and some scanned window was not
C26_Witness ==
  /\ Applied("findImportantRegions")
  /\ \E i, j \in 1..Len(fout) : fout[i].Width < fout[j].Width
  /\ Len(fout) < Cardinality(ScannedWindows(fin.img.W, fin.img.H))

(***************************************************************************)
(* Properties of CropWithPadding                                           *)
(***************************************************************************)
\* C27: the override of config.PaddingRatio by CropWithPadding is temporary:
\* once every call has returned, in any interleaving and whether the calls
\* succeeded or failed, PaddingRatio is the value it had before the first
\* call, and the crop of every call ran under the padding of that call.
C27_PaddingOverrideTemporary ==
  /\ (\A g \in Goroutines : goroutines[g].pc \in {"idle", "returned"})
        => cropConfig.PaddingRatio = fin.PaddingRatio
  /\ \A g \in Goroutines :
        goroutines[g].pc \in {"cropped", "returned"}
          => goroutines[g].seen = goroutines[g].paddingRatio

(***************************************************************************)
(* Properties of the CropResult                                            *)
(***************************************************************************)
\* C28: for every image on which CropToRatio succeeds, its bounds starting
\* at (0,0) or not, the cropped image is Region.Width wide and
\* Region.Height high, its pixel (0,0) is the source pixel at the top-left
\* corner of the region, and AspectRatio is the target ratio passed in.
C28_CropResultSelfConsistent ==
  (Applied("CropToRatio") /\ fout.err = "nil") =>
     LET view == croppedImage(fin.img, fout.image)
         viewBounds == croppedBounds(view)
         bounds == imageBounds(fin.img)
     IN  /\ viewBounds.x2 - viewBounds.x1 = fout.region.Width
         /\ viewBounds.y2 - viewBounds.y1 = fout.region.Height
         /\ croppedAt(view, 0, 0)
              = imageAt(fin.img, bounds.x1 + fout.region.X, bounds.y1 + fout.region.Y)
         /\ fout.aspect = fin.r

(***************************************************************************)
(* Properties of calculateSaliencyMap                                      *)
(***************************************************************************)
\* C29: the saliency grid has the image's height and width, every cell of
\* its first and last row and of its first and last column is 0, and for
\* an image narrower or shorter than 3 pixels every cell is 0.
C29_GridSizeAndZeroBorder ==
  Applied("calculateSaliencyMap") =>
     LET w == fin.img.W
         h == fin.img.H
     IN  /\ DOMAIN fout = 0..(h - 1)
         /\ \A y \in 0..(h - 1) :
               /\ DOMAIN fout[y] = 0..(w - 1)
               /\ \A x \in 0..(w - 1) :
                     (x = 0 \/ x = w - 1 \/ y = 0 \/ y = h - 1 \/ w < 3 \/ h < 3)
                       => fout[y][x] = 0

\* a grid with a non-zero cell inside a border of zeros
C29_Witness ==
  /\ Applied("calculateSaliencyMap")
  /\ fin.img.W >= 3 /\ fin.img.H >= 3
  /\ fout[1][1] > 0
  /\ fout[0][1] = 0

\* every pixel of the image has the same colour
UniformImage(img) ==
  \A x \in 0..(img.W - 1), y \in 0..(img.H - 1) : At(img, x, y) = At(img, 0, 0)

\* C30: for an image whose pixels all have the same colour the edge term
\* is 0 at every interior cell, so that each interior saliency value is
\* exactly colorWeight * brightness, whatever contrastWeight is.  In
\* 1/SalDen the weight is in hundredths and the brightness (r+g+b)/(3*65535).
C30_UniformImageSaliency ==
  (Applied("calculateSaliencyMap") /\ UniformImage(fin.img)) =>
     \A y \in 1..(fin.img.H - 2), x \in 1..(fin.img.W - 2) :
        LET c == At(fin.img, x, y)
        IN  fout[y][x] * 65535
              = 8 * config.ColorWeight * (RGBA(c[1]) + RGBA(c[2]) + RGBA(c[3]))

\* a uniform image that is not black, under weights that differ
C30_Witness ==
  /\ Applied("calculateSaliencyMap") /\ UniformImage(fin.img)
  /\ fin.img.W >= 3 /\ fin.img.H >= 3
  /\ config.ContrastWeight # config.ColorWeight
  /\ fout[1][1] > 0

====
